---------------------------- MODULE Spec2Model ----------------------------
(***************************************************************************)
(* State-machine model of the Snooz BLE WebSocket service                  *)
(* (src/ble_ws_service): the gateway protocol handler (ws_server.py), the  *)
(* manager with its capacity-1 BLE semaphore and rescan loop               *)
(* (snooz_manager.py) and the per-device debounced state-change emitter    *)
(* (ble_snooz.py).                                                         *)
(*                                                                         *)
(* The program is single-threaded cooperative (asyncio): every action      *)
(* below is the code that runs between two await points of one coroutine.  *)
(***************************************************************************)
EXTENDS Integers, Sequences, FiniteSets, TLC

(***************************************************************************)
(* Bounds of the model.                                                    *)
(***************************************************************************)
\* state-change notifications the devices may fire, all together, in one run
MaxNotifs == 2
\* advertisements one scan may observe
MaxAdvs == 3
\* the timeout of a scan (12 s at startup, 8 s in a rescan), in clock ticks
ScanTicks == 2

(***************************************************************************)
(* Program constants.                                                      *)
(***************************************************************************)
\* asyncio.Semaphore(1)
SemCapacity == 1
\* range accepted by cmd_set_volume / cmd_set_light_brightness
MinPercent == 0
MaxPercent == 100
\* asyncio.sleep(0.25) in _emit, in clock ticks of 125 ms
DebounceTicks == 2

(***************************************************************************)
(* Universe: configured devices, client connections, protocol values.      *)
(***************************************************************************)
Devices == {"d1", "d2"}
Conns == {"c1", "c2", "c3"}
\* the connection on which the whole frame alphabet is explored
ProtoConns == {"c1"}

NoDev == "none"
NoConn == "none"
\* JSON null / Python None
Null == "null"
\* key missing from the JSON object
Absent == "absent"

ActionCommands ==
    {"noise_on", "noise_off", "set_volume", "light_on", "light_off",
     "set_light_brightness"}
RangedCommands == {"set_volume", "set_light_brightness"}
DeviceCommands == ActionCommands \cup {"get_state"}

\* device_name values a client may send: registered, unregistered, missing
DeviceNames == Devices \cup {"ghost", Absent}
\* request_id values a client may send; Null stands for an explicit null and
\* for a missing key alike (msg.get("request_id") is None for both)
RequestIds == {"x1", Null}
\* numeric arguments tried for volume / brightness
ArgValues == {-1, 0, 100, 150}

(***************************************************************************)
(* An inbound frame.  kind is what json.loads makes of it:                 *)
(*   "text_bad"   text that is not JSON        -> json.JSONDecodeError     *)
(*   "load_other" not JSON, and json.loads raises something else:          *)
(*                1000 times "[" (RecursionError), a binary frame with     *)
(*                invalid UTF-8 (UnicodeDecodeError)                       *)
(*   "non_object" JSON that is not an object   -> a list, number, ...      *)
(*   "object"     a JSON object                                            *)
(* argKind/argVal describe msg["volume"] or msg["brightness"]: missing,    *)
(* not convertible by int(), or an integer.                                *)
(***************************************************************************)
Frame(kind, type, rid, command, dev, argKind, argVal) ==
    [kind |-> kind, type |-> type, rid |-> rid, command |-> command,
     device_name |-> dev, argKind |-> argKind, argVal |-> argVal]

RawFrames ==
    {Frame(k, "other", Null, Absent, Absent, Absent, 0) :
        k \in {"text_bad", "load_other", "non_object"}}

ObjectFrames ==
    {Frame("object", "other", r, Absent, Absent, Absent, 0) : r \in RequestIds}
    \cup {Frame("object", "command", r, cmd, Absent, Absent, 0) :
            r \in RequestIds, cmd \in {"heartbeat", "list_devices", "bogus", Absent}}
    \cup {Frame("object", "command", r, cmd, d, Absent, 0) :
            r \in RequestIds, cmd \in DeviceCommands, d \in DeviceNames}
    \cup {Frame("object", "command", "x1", cmd, d, "junk", 0) :
            cmd \in RangedCommands, d \in DeviceNames}
    \cup {Frame("object", "command", "x1", cmd, d, "int", v) :
            cmd \in RangedCommands, d \in DeviceNames, v \in ArgValues}

Frames == RawFrames \cup ObjectFrames

\* action commands with valid arguments on registered devices
ValidActionFrames ==
    {f \in ObjectFrames :
        /\ f.type = "command"
        /\ f.command \in ActionCommands
        /\ f.device_name \in Devices
        /\ f.rid = "x1"
        /\ f.command \in RangedCommands => f.argKind = "int" /\ f.argVal = 100
        /\ f.command \notin RangedCommands => f.argKind = Absent}

\* what each connection sends when the gate is exercised with three
\* connections: c1 every action command on d1, c2 and c3 one command each on
\* either device
GateFrames(c) ==
    IF c = "c1" THEN {f \in ValidActionFrames : f.device_name = "d1"}
    ELSE IF c = "c2" THEN {f \in ValidActionFrames : f.command = "noise_off"}
    ELSE {f \in ValidActionFrames : f.command = "set_volume"}

NoFrame == Frame("none", "other", Null, Absent, Absent, Absent, 0)

(***************************************************************************)
(* Configuration and radio inputs.  Strings are kept as written, with      *)
(* str.upper() and str.strip().lower() as tables over the strings used.    *)
(***************************************************************************)
\* service.websocket.auth_token: none, or a token
NoToken == "none"
AuthTokens == {NoToken, "secret"}
\* the Authorization header of an opening handshake
AuthHeaders == {Absent, "Basic secret", "Bearer secret", "Bearer  secret ",
                "Bearer wrong"}

NoName == "none"
Upper(a) == IF a = "aa" THEN "AA" ELSE a
StripLower(n) ==
    IF n \in {" SNOOZ1 ", "Snooz1"} THEN "snooz1" ELSE n

\* address and match_name of the two devices as BleSnooz.__init__ stores
\* them (config.py makes sure one of the two is set; it does not make them
\* differ between devices)
DeviceConfig(address, match_name) ==
    [address |-> address, match_name |-> match_name]
ScanConfigs ==
    {c \in [Devices -> {DeviceConfig(a, n) :
                           a \in {"", "AA", "BB"},
                           n \in {NoName, "Snooz1", "snooz2"}}] :
        /\ \A d \in Devices : c[d].address # "" \/ c[d].match_name # NoName
        /\ c["d1"].address \in {"", "AA"}
        /\ c["d1"].match_name \in {NoName, "Snooz1"}}
DefaultConfig ==
    [d \in Devices |->
        IF d = "d1" THEN DeviceConfig("AA", NoName)
        ELSE DeviceConfig("BB", "snooz2")]

\* an advertisement: BLEDevice.address and adv.local_name or device.name
Advertisement(address, name) == [address |-> address, name |-> name]
NoAdv == Advertisement("none", "none")
Advertisements ==
    {Advertisement(a, n) : a \in {"aa", "BB", "CC", ""},
                           n \in {"", " SNOOZ1 ", "snooz2"}}
AddrKeys == {"AA", "BB"}
NameKeys == {"snooz1", "snooz2"}

VARIABLES
    \* ---- gateway (ws_server.py) ----
    ws,          \* ws[c]: transport of connection c: "new", "open", "closed", or
                 \* the rejection of its handshake: "unauthorized", "forbidden"
    handler,     \* handler[c]: _handler coroutine: "none", "running", "ended", "crashed"
    clients,     \* WebSocketServer._clients
    pc,          \* pc[c]: where _handle_message is: "idle", "wait", "granted", "exec"
    req,         \* req[c]: the last frame c's handler took (NoFrame when none)
    reqReady,    \* reqReady[c]: dev.is_ready() as read while handling req[c]
    nresp,       \* nresp[c]: response frames delivered for req[c]
    resp,        \* resp[c]: the last response frame delivered on c
    hello,       \* hello[c]: the Authorization header of c's opening handshake
    \* ---- manager (snooz_manager.py) ----
    sem_value,   \* SnoozManager._ble_op_sem._value
    sem_waiters, \* SnoozManager._ble_op_sem._waiters, oldest first
    arrivals,    \* connections that asked for the gate and have not finished, oldest first
    mgr,         \* manager coroutine: "init", "init_loop", "sleep", "rescan_loop"
    found,       \* matches of the current scan still to be processed
    starting,    \* the device whose BleSnooz.start() is on the radio, or NoDev
    wsUp,        \* WebSocketServer.start() has run
    \* ---- device sessions (ble_snooz.py) ----
    bound,       \* bound[d]: _device and _discovered are set (is_ready())
    connected,   \* connected[d]: the pysnooz session is connected
    devState,    \* devState[d]: state held by the pysnooz store (0: nothing read yet)
    evTask,      \* evTask[d]: BleSnooz._event_task: "none", "waiting", "holding", "done"
    evHolder,    \* evHolder[d]: the _emit task that holds _event_lock (NoHolder when free)
    \* ---- clock and observation ----
    age,         \* age[d]: ticks since d's last notification, capped at DebounceTicks
    notifs,      \* notifs[d]: notifications d fired so far
    burstEmits,  \* burstEmits[d]: events emitted since the current burst began
    lastEvent,   \* lastEvent[d]: the last event _emit built for d, with d's age then
    superseded,  \* superseded[d]: notifications followed by another while their emission was pending
    inbox,       \* inbox[c]: events delivered to client c, oldest first
    binds,       \* binds[d]: successful bind_discovery calls on d so far
    published,   \* the events _emit handed to the callbacks, in publish order
    delivery,    \* delivery[d]: d's last publish: its clients, the failed sends, whether it returned
    started,     \* started[d]: d's start(): "never" called, "running", "done", "failed"
    rescan,      \* the rescan tick in progress: its targets; the last error of a tick
    registry,    \* SnoozManager._devices (names in insertion order), the callbacks
                 \* wired per name, and the last registry call with its outcome
    executed,    \* executed[c]: how the device operation of req[c] ended ("none" when
                 \* req[c] has not run one to its end)
    wire,        \* wire[c]: the frames client c has sent (msgs, oldest first), how
                 \* many of them the handler has taken, and the request ids of
                 \* the responses sent for them (answers, oldest first)
    api,         \* the manager under any calls of start() and stop(): _running,
                 \* _rescan_task (the start() call that created it, 0 for None),
                 \* where each start() call is, and each call's rescan task
    held,        \* held[c]: req[c] was answered at once while the semaphore was locked
    subscribed,  \* subscribed[d]: BleSnooz._unsubscribe is set
    address,     \* address[d]: BleSnooz.address
    called,      \* the last call of start() or refresh_state() made on a session
                 \* from outside the manager, and how it went
    svc,         \* main()'s shutdown: how far ws.stop() and manager.stop() are, and
                 \* what manager.stop() did to the rescan task and to each session
    \* ---- configuration (config.py, main.py) ----
    auth_token,  \* WebSocketServer._auth_token (NoToken when none is configured)
    cfg,         \* cfg[d]: address and match_name of BleSnooz d
    \* ---- one run of SnoozManager._scan_for_targets ----
    scan,        \* its locals, its position and the BleakScanner
    seen         \* what the advertisements observed by the scan would match

gatewayVars == <<ws, handler, clients, pc, req, reqReady, nresp, resp>>
managerVars == <<sem_value, sem_waiters, arrivals, mgr, found, starting, wsUp>>
deviceVars == <<bound, connected, devState, evTask, evHolder>>
observerVars == <<age, notifs, burstEmits, lastEvent, superseded, inbox>>
serviceVars == <<registry, executed, held, wire, api>>
lifeVars == <<subscribed, svc, address, called>>
historyVars == <<binds, published, delivery, started, rescan, serviceVars, lifeVars>>
configVars == <<auth_token, cfg>>
scanVars == <<scan, seen>>
vars == <<gatewayVars, managerVars, deviceVars, observerVars, historyVars,
          configVars, scanVars, hello>>


(***************************************************************************)
(* Values of the records held in the state.                                *)
(***************************************************************************)
\* the "data" of a response: absent, or the snapshot get_state returns
NoData == [present |-> FALSE, connected |-> FALSE, state |-> 0]
NoResp == [rid |-> Null, status |-> "none", error |-> "none", data |-> NoData]
ResponseWith(rid, status, error, data) ==
    [rid |-> rid, status |-> status, error |-> error, data |-> data]
Response(rid, status, error) == ResponseWith(rid, status, error, NoData)

\* what _handle_message does with a frame before its first await on the radio:
\* "crash" (an exception leaves _handle_message), "reply" (a response is sent
\* and the handler returns) or "gate" (a manager command reaches _with_ble_lock)
OutcomeWith(t, rid, status, error, command, dev, data) ==
    [t |-> t, rid |-> rid, status |-> status, error |-> error,
     command |-> command, dev |-> dev, data |-> data]
Outcome(t, rid, status, error, command, dev) ==
    OutcomeWith(t, rid, status, error, command, dev, NoData)
Crash == Outcome("crash", Null, "none", "none", "none", NoDev)
ReplyOk(rid) == Outcome("reply", rid, "ok", "none", "none", NoDev)
ReplyData(rid, data) == OutcomeWith("reply", rid, "ok", "none", "none", NoDev, data)
ReplyError(rid, error) == Outcome("reply", rid, "error", error, "none", NoDev)
ToGate(rid, command, dev) == Outcome("gate", rid, "none", "none", command, dev)

(***************************************************************************)
(* BleSnooz.is_ready and SnoozManager.get_device.                          *)
(***************************************************************************)
\* a readiness test that never finds a session ready
is_ready_never(d) == FALSE

is_ready(d) == bound[d]

\* BleSnooz.snapshot: "connected" and the state fields (on, volume, light_on,
\* light_brightness, night_mode_enabled), which are all null when there is no
\* device object or nothing has been read (state 0)
NullState == 0
snapshot(d) ==
    [present |-> TRUE,
     connected |-> bound[d] /\ connected[d],
     state |-> IF bound[d] THEN devState[d] ELSE NullState]

\* the registry holds exactly the configured devices (filled before start)
get_device_known(name) == name \in Devices

(***************************************************************************)
(* SnoozManager.cmd_*: the checks a command passes before _with_ble_lock.  *)
(* The result is the error raised, or "gate".                              *)
(***************************************************************************)
\* a readiness test that also asks for a connected session
PlainPrecheckConnected(name) ==
    IF ~get_device_known(name) THEN "unknown_device"
    ELSE IF ~(is_ready(name) /\ connected[name]) THEN "device_unavailable"
    ELSE "gate"

PlainPrecheck(name) ==
    IF ~get_device_known(name) THEN "unknown_device"
    ELSE IF ~is_ready(name) THEN "device_unavailable"
    ELSE "gate"

\* a ranged command whose range test is missing
RangedPrecheckNoRange(name, value, rangeError) ==
    PlainPrecheck(name)

RangedPrecheck(name, value, rangeError) ==
    IF ~get_device_known(name) THEN "unknown_device"
    ELSE IF ~is_ready(name) THEN "device_unavailable"
    ELSE IF ~(MinPercent <= value /\ value <= MaxPercent) THEN rangeError
    ELSE "gate"

cmd_set_volume(name, volume) ==
    RangedPrecheck(name, volume, "volume must be 0..100")

cmd_set_light_brightness(name, brightness) ==
    RangedPrecheck(name, brightness, "brightness must be 0..100")

cmd_plain(name) == PlainPrecheck(name)

\* a get_state that asks for a ready device as the action commands do
cmd_get_state_gated(name) ==
    IF PlainPrecheck(name) = "gate" THEN "ok" ELSE PlainPrecheck(name)

cmd_get_state(name) ==
    IF ~get_device_known(name) THEN "unknown_device" ELSE "ok"

\* a get_state that runs under _with_ble_lock
cmd_get_state_locked(rid, name) == ToGate(rid, "get_state", name)

\* cmd_get_state returns dev.snapshot() without _with_ble_lock and without
\* an await on the device: the response is sent at once
cmd_get_state_reply(rid, name) == ReplyData(rid, snapshot(name))

(***************************************************************************)
(* WebSocketServer._handle_message up to its first await on the manager.   *)
(***************************************************************************)
\* msg.get("request_id")
RequestIdOf(f) == f.rid

FromPrecheck(f, rid, check) ==
    IF check = "gate" THEN ToGate(rid, f.command, f.device_name)
    ELSE ReplyError(rid, check)

\* no command asks for a device_name
requires_no_device_name(command) == FALSE

\* the commands that raise "device_name is required" without one
requires_device_name(command) == command \in DeviceCommands

DispatchCommand(f, rid) ==
    IF f.command = "heartbeat" THEN ReplyOk(rid)
    ELSE IF f.command = "list_devices" THEN ReplyOk(rid)
    ELSE IF requires_device_name(f.command) /\ f.device_name = Absent
        THEN ReplyError(rid, "device_name is required")
    ELSE IF f.command = "get_state"
        THEN IF cmd_get_state(f.device_name) = "ok"
             THEN cmd_get_state_reply(rid, f.device_name)
             ELSE ReplyError(rid, cmd_get_state(f.device_name))
    ELSE IF f.command \in RangedCommands
        THEN IF f.argKind = Absent THEN ReplyError(rid, "missing_field")
             ELSE IF f.argKind = "junk" THEN ReplyError(rid, "invalid_int")
             ELSE IF f.command = "set_volume"
                 THEN FromPrecheck(f, rid, cmd_set_volume(f.device_name, f.argVal))
                 ELSE FromPrecheck(f, rid,
                          cmd_set_light_brightness(f.device_name, f.argVal))
    ELSE IF f.command \in ActionCommands
        THEN FromPrecheck(f, rid, cmd_plain(f.device_name))
    ELSE ReplyError(rid, "unknown_command")

HandleMessage(f) ==
    IF f.kind = "text_bad" THEN ReplyError(Null, "invalid_json")
    \* only json.JSONDecodeError is caught around json.loads
    ELSE IF f.kind = "load_other" THEN Crash
    \* msg.get on a list, string, number or None: AttributeError, outside the try
    ELSE IF f.kind = "non_object" THEN Crash
    ELSE IF f.type # "command"
        THEN ReplyError(RequestIdOf(f), "type_must_be_command")
    ELSE DispatchCommand(f, RequestIdOf(f))


(***************************************************************************)
(* Initial state: the objects as constructed by main(), before             *)
(* manager.start(): every configured device registered and unbound, the    *)
(* semaphore free, no client.                                              *)
(***************************************************************************)
\* the _emit task holding a device's _event_lock: phase "sleep" (in
\* asyncio.sleep) or "deliver" (in the callbacks), whether it has been
\* cancelled, the ticks left to sleep, the notification that created it,
\* the event it built and the clients it still has to send to
NoEvent == [device_name |-> NoDev, state |-> 0, born |-> 0]
NoHolder == [phase |-> "free", cancelled |-> FALSE, remaining |-> 0,
             born |-> 0, event |-> NoEvent, pending |-> {}]
NoEmission == [state |-> 0, born |-> 0, age |-> 0]

IdleScan ==
    [phase |-> "idle", scanner |-> "none", targets |-> {},
     addr_map |-> [k \in AddrKeys |-> NoDev],
     name_map |-> [k \in NameKeys |-> NoDev],
     found |-> [d \in Devices |-> NoAdv],
     done |-> FALSE, left |-> 0, by |-> "none", advs |-> 0]
\* no call yet.  n: calls so far; raised: "none", "not_bound" (the
\* RuntimeError of start() on a session without _device), "error" (what the
\* device raised); radio: the call awaited the device; read: the state
\* refresh_state read (NullState when it read none)
NoSessionCall ==
    [n |-> 0, op |-> "none", name |-> NoDev, raised |-> "none", radio |-> FALSE,
     read |-> NullState]
\* no bind_discovery call yet in this pass
NoBind == [name |-> NoDev, adv |-> NoAdv, classified |-> FALSE, returned |-> FALSE]
\* bind: the last bind_discovery call of the pass, its arguments and result;
\* dropped: the targets an advertisement matched when they had a match already
NothingSeen ==
    [addr |-> [d \in Devices |-> FALSE], matched |-> {}, at_wake |-> {},
     lag |-> 0, bind |-> NoBind, dropped |-> {}]
NoDelivery == [targets |-> {}, failed |-> {}, returned |-> FALSE]
\* main() has not begun to shut down.  stop: "no", "gateway" (ws.stop()
\* waits in wait_closed), "gateway_done", "manager" (manager.stop() waits for
\* a disconnect), "done"; at: the position of manager.stop() in _devices;
\* disconnect[d]: async_disconnect of d: "no", "requested", "done", "failed";
\* cancel: what became of the cancellation of the rescan task
NotStopping ==
    [stop |-> "no", at |-> 0, disconnect |-> [d \in Devices |-> "no"],
     cancel |-> "none"]
\* no rescan tick in progress; error is the last error a tick ended with
\* ("scan", "bind"), resumed whether a tick began after it
NoRescan ==
    [ticked |-> FALSE, targets |-> {}, scanned |-> FALSE, error |-> "none",
     resumed |-> FALSE]

\* SnoozManager._devices as a list of names in insertion order, with the
\* number of _broadcast_event callbacks registered on each name's session
RegNames == Devices \cup {"ghost"}
\* start() calls made on one manager
MaxStarts == 3
Starts == 1..MaxStarts
\* the manager as constructed: _running False, _rescan_task None
NotStarted ==
    [running |-> FALSE, rescan_task |-> 0,
     call |-> [k \in Starts |-> "idle"],
     loop |-> [k \in Starts |-> "none"],
     cancelling |-> [k \in Starts |-> FALSE]]

\* a client that has sent nothing
NothingSent == [msgs |-> <<>>, taken |-> 0, answers |-> <<>>]
\* frames a client sends ahead of its handler
MaxMsgs == 2

NoCall == [op |-> "none", name |-> "none", raised |-> "none", before |-> <<>>]
EmptyRegistry ==
    [names |-> <<>>, callbacks |-> [n \in RegNames |-> 0], last |-> NoCall]
Registered(r) == {r.names[i] : i \in 1..Len(r.names)}

\* a registration that assigns without looking for the name
add_device_overwrites(r, name) ==
    [names |-> IF name \in Registered(r) THEN r.names ELSE Append(r.names, name),
     callbacks |-> [r.callbacks EXCEPT ![name] = @ + 1],
     last |-> [op |-> "add", name |-> name, raised |-> "none",
               before |-> r.names]]

\* SnoozManager.add_device
add_device(r, name) ==
    IF name \in Registered(r)
    THEN [r EXCEPT !.last = [op |-> "add", name |-> name,
                             raised |-> "ValueError", before |-> r.names]]
    ELSE [names |-> Append(r.names, name),
          callbacks |-> [r.callbacks EXCEPT ![name] = @ + 1],
          last |-> [op |-> "add", name |-> name, raised |-> "none",
                    before |-> r.names]]

\* SnoozManager.get_device: the session of the name, or KeyError
get_device(r, name) ==
    [r EXCEPT !.last = [op |-> "get", name |-> name,
                        raised |-> IF name \in Registered(r) THEN "none"
                                   ELSE "KeyError",
                        before |-> r.names]]

\* SnoozManager.get_device_names: list(self._devices.keys())
get_device_names(r) ==
    [r EXCEPT !.last = [op |-> "names", name |-> "none", raised |-> "none",
                        before |-> r.names]]

\* main() registers the configured devices in the order of the configuration
MainRegistry ==
    [add_device(add_device(EmptyRegistry, "d1"), "d2") EXCEPT !.last = NoCall]

SessionsConstructed ==
    /\ ws = [c \in Conns |-> "new"]
    /\ handler = [c \in Conns |-> "none"]
    /\ clients = {}
    /\ pc = [c \in Conns |-> "idle"]
    /\ req = [c \in Conns |-> NoFrame]
    /\ reqReady = [c \in Conns |-> FALSE]
    /\ nresp = [c \in Conns |-> 0]
    /\ resp = [c \in Conns |-> NoResp]
    /\ hello = [c \in Conns |-> Absent]
    /\ sem_value = SemCapacity
    /\ sem_waiters = <<>>
    /\ arrivals = <<>>
    /\ mgr = "init"
    /\ found = {}
    /\ starting = NoDev
    /\ wsUp = FALSE
    /\ bound = [d \in Devices |-> FALSE]
    /\ connected = [d \in Devices |-> FALSE]
    /\ devState = [d \in Devices |-> 0]
    /\ evTask = [d \in Devices |-> "none"]
    /\ evHolder = [d \in Devices |-> NoHolder]
    /\ age = [d \in Devices |-> DebounceTicks]
    /\ notifs = [d \in Devices |-> 0]
    /\ burstEmits = [d \in Devices |-> 0]
    /\ lastEvent = [d \in Devices |-> NoEmission]
    /\ superseded = [d \in Devices |-> {}]
    /\ inbox = [c \in Conns |-> <<>>]
    /\ binds = [d \in Devices |-> 0]
    /\ published = <<>>
    /\ delivery = [d \in Devices |-> NoDelivery]
    /\ started = [d \in Devices |-> "never"]
    /\ rescan = NoRescan
    /\ executed = [c \in Conns |-> "none"]
    /\ held = [c \in Conns |-> FALSE]
    /\ wire = [c \in Conns |-> NothingSent]
    /\ api = NotStarted
    /\ subscribed = [d \in Devices |-> FALSE]
    /\ called = NoSessionCall
    /\ svc = NotStopping
    /\ scan = IdleScan
    /\ seen = NothingSeen

Constructed ==
    /\ SessionsConstructed
    /\ registry = MainRegistry

\* SnoozManager() before main() has added a device
InitRegistry ==
    /\ SessionsConstructed
    /\ registry = EmptyRegistry
    /\ auth_token = NoToken
    /\ cfg = DefaultConfig
    /\ address = [d \in Devices |-> cfg[d].address]

\* no credential configured
Init ==
    /\ Constructed
    /\ auth_token = NoToken
    /\ cfg = DefaultConfig
    /\ address = [d \in Devices |-> cfg[d].address]

\* with or without a configured credential
InitAuth ==
    /\ Constructed
    /\ auth_token \in AuthTokens
    /\ cfg = DefaultConfig
    /\ address = [d \in Devices |-> cfg[d].address]

\* any configuration of the two devices' address and match_name
InitScan ==
    /\ Constructed
    /\ auth_token = NoToken
    /\ cfg \in ScanConfigs
    /\ address = [d \in Devices |-> cfg[d].address]

(***************************************************************************)
(* Sequence helpers.                                                       *)
(***************************************************************************)
Without(seq, x) == SelectSeq(seq, LAMBDA y : y # x)
InSeq(seq, x) == \E i \in 1..Len(seq) : seq[i] = x

(***************************************************************************)
(* asyncio.Semaphore as used by _with_ble_lock (CPython 3.11).  A waiter   *)
(* whose future has been set (pc "granted") stays in the deque until it    *)
(* resumes and removes itself.                                             *)
(***************************************************************************)
\* a semaphore that never reports itself locked lets every caller through
sem_locked_never == FALSE

\* Semaphore.locked(): no token left, or somebody is queued
sem_locked == sem_value = 0 \/ sem_waiters # <<>>

\* waking the most recent waiter instead of the oldest
wake_newest(waiters) ==
    LET live == {i \in 1..Len(waiters) : pc[waiters[i]] = "wait"}
    IN IF live = {} THEN NoConn
       ELSE waiters[CHOOSE i \in live : \A j \in live : j <= i]

\* Semaphore._wake_up_next(): the first waiter whose future is not done
wake_up_next(waiters) ==
    LET live == {i \in 1..Len(waiters) : pc[waiters[i]] = "wait"}
    IN IF live = {} THEN NoConn
       ELSE waiters[CHOOSE i \in live : \A j \in live : i <= j]

\* a lock dropped only when the operation returns, not when it raises
released_on_return_only(outcome) == outcome # "raised"

\* "async with self._ble_op_sem" leaves through __aexit__ on every outcome
with_ble_lock_releases(outcome) == TRUE

(***************************************************************************)
(* BleSnooz._on_state_change: cancel the emission task that is not done    *)
(* and create a new one.  A cancelled task that never got the lock is      *)
(* gone; one that holds the lock still has to unwind.                      *)
(***************************************************************************)
\* replacing the task without cancelling the one that holds the lock
restart_without_cancel(d) ==
    /\ evTask' = [evTask EXCEPT ![d] = "waiting"]
    /\ evHolder' = evHolder

OnStateChange(d) ==
    /\ evTask' = [evTask EXCEPT ![d] = "waiting"]
    /\ evHolder' = [evHolder EXCEPT ![d] =
           IF evTask[d] = "holding" THEN [@ EXCEPT !.cancelled = TRUE] ELSE @]

\* the emission created by d's latest notification has not built its event
EmissionPending(d) ==
    \/ evTask[d] = "waiting"
    \/ evTask[d] = "holding" /\ evHolder[d].phase = "sleep"

\* the number of notifications the devices of ds have had
RECURSIVE Notifications(_)
Notifications(ds) ==
    IF ds = {} THEN 0
    ELSE LET d == CHOOSE x \in ds : TRUE
         IN notifs[d] + Notifications(ds \ {d})

\* what an observer of d's notifications records: their number, the time
\* since the last one, whether this one continues a burst (it came less than
\* the debounce delay after the previous one) and whether it found the
\* previous one's emission still pending
ObserveNotification(d) ==
    /\ notifs' = [notifs EXCEPT ![d] = @ + 1]
    /\ age' = [age EXCEPT ![d] = 0]
    /\ burstEmits' = [burstEmits EXCEPT ![d] =
           IF notifs[d] > 0 /\ age[d] < DebounceTicks THEN @ ELSE 0]
    /\ superseded' = [superseded EXCEPT ![d] =
           IF EmissionPending(d) THEN @ \cup {notifs[d]} ELSE @]

(***************************************************************************)
(* Manager: initial discovery, then the rescan loop.                       *)
(***************************************************************************)
\* SnoozManager.start -> _initial_discovery_and_connect: the scan; found is
\* whatever subset of the targets matched before the timeout
InitialScan ==
    /\ mgr = "init"
    /\ \E matched \in SUBSET Devices : found' = matched
    /\ mgr' = "init_loop"
    /\ UNCHANGED <<gatewayVars, sem_value, sem_waiters, arrivals, starting, wsUp,
                   deviceVars, observerVars>>
    /\ UNCHANGED <<historyVars, configVars, scanVars, hello>>

\* one iteration of "for devname, (ble_dev, adv) in found.items()" up to the
\* await in dev.start(); classified is bind_discovery's result (whether the
\* advertisement parses to a supported model)
LoopBind(d, classified) ==
    /\ mgr \in {"init_loop", "rescan_loop"}
    /\ starting = NoDev
    /\ d \in found
    /\ found' = found \ {d}
    \* the match is taken to be by the configured address, which is then
    \* also the discovered address upper-cased: address stays as it is
    /\ IF (mgr = "rescan_loop" => ~is_ready(d)) /\ classified
       THEN /\ bound' = [bound EXCEPT ![d] = TRUE]
            /\ subscribed' = [subscribed EXCEPT ![d] = TRUE]
            /\ binds' = [binds EXCEPT ![d] = @ + 1]
            /\ starting' = d
            /\ started' = [started EXCEPT ![d] = "running"]
       ELSE UNCHANGED <<bound, subscribed, binds, starting, started>>
    /\ UNCHANGED <<gatewayVars, sem_value, sem_waiters, arrivals, mgr, wsUp,
                   connected, devState, evTask, evHolder, observerVars>>
    /\ UNCHANGED <<configVars, scanVars, hello, published, delivery, rescan,
                   serviceVars, svc, address, called>>

\* dev.start() returns or raises: async_get_info (connect), then
\* refresh_state (forced read, patch, _on_state_change when the store
\* changed).  result: "connect_failed", "read_failed", "same", "changed".
start_raises(result) == result \in {"connect_failed", "read_failed"}

\* a start() that raised takes the binding back
unbound_after_failed_start(d, result) == bound[d] /\ ~start_raises(result)

\* the callers of start() log what it raises and leave the session as it is
bound_after_start(d, result) == bound[d]

StartDone(d, result, newState) ==
    /\ starting = d
    /\ starting' = NoDev
    /\ connected' = [connected EXCEPT ![d] = result # "connect_failed"]
    /\ bound' = [bound EXCEPT ![d] = bound_after_start(d, result)]
    /\ started' = [started EXCEPT ![d] =
           IF start_raises(result) THEN "failed" ELSE "done"]
    /\ IF result = "changed" /\ newState # devState[d]
       THEN /\ devState' = [devState EXCEPT ![d] = newState]
            /\ OnStateChange(d)
            /\ ObserveNotification(d)
       ELSE UNCHANGED <<devState, evTask, evHolder, age, notifs, burstEmits,
                        superseded>>
    /\ UNCHANGED <<gatewayVars, sem_value, sem_waiters, arrivals, mgr, found, wsUp,
                   lastEvent, inbox>>
    /\ UNCHANGED <<binds, published, delivery, rescan, serviceVars, lifeVars,
                   configVars, scanVars, hello>>

\* the locals of a tick are gone when it is over; error is what it raised
TickOver(error) ==
    [NoRescan EXCEPT !.error = IF error = "none" THEN rescan.error ELSE error,
                     !.resumed = error = "none" /\ rescan.resumed]

\* the for loop is exhausted: after initial discovery start() creates the
\* rescan task and main() starts the WebSocket server; a rescan pass goes
\* back to sleep
LoopEnd ==
    /\ mgr \in {"init_loop", "rescan_loop"}
    /\ starting = NoDev
    /\ found = {}
    /\ mgr' = "sleep"
    /\ wsUp' = (mgr = "init_loop" \/ wsUp)
    /\ rescan' = TickOver("none")
    /\ UNCHANGED <<gatewayVars, sem_value, sem_waiters, arrivals, found, starting,
                   deviceVars, observerVars>>
    /\ UNCHANGED <<binds, published, delivery, started, serviceVars, lifeVars,
                   configVars, scanVars, hello>>

\* SnoozManager._running: set by start(), cleared by stop()
running == mgr # "init" /\ svc.stop \in {"no", "gateway", "gateway_done"}

\* a tick that scans for every registered name
all_names == Devices

\* the names a rescan tick scans for
missing_names == {d \in Devices : ~is_ready(d)}

\* the locals of a tick that scans for targets
Ticked(targets) ==
    [rescan EXCEPT !.ticked = TRUE, !.targets = targets, !.scanned = TRUE,
                   !.resumed = rescan.error # "none"]

\* _rescan_loop wakes from its sleep: with nothing missing it goes back to
\* sleep ("continue"), otherwise it scans for the devices that are not ready
RescanTick ==
    /\ mgr = "sleep"
    /\ running
    /\ IF missing_names = {}
       THEN UNCHANGED <<mgr, found, rescan>>
       ELSE /\ \E matched \in SUBSET missing_names : found' = matched
            /\ mgr' = "rescan_loop"
            /\ rescan' = Ticked(missing_names)
    /\ UNCHANGED <<gatewayVars, sem_value, sem_waiters, arrivals, starting, wsUp,
                   deviceVars, observerVars>>
    /\ UNCHANGED <<binds, published, delivery, started, serviceVars, lifeVars,
                   configVars, scanVars, hello>>

\* an exception ends the rescan task
tick_error_ends_loop == "ended"

\* "except Exception" inside "while self._running": the error is logged and
\* the loop goes on to its next sleep
after_tick_error == "sleep"

\* a tick raises outside dev.start(): _scan_for_targets raises ("scan"), or
\* bind_discovery raises on one of the matches ("bind") and the rest of the
\* matches is dropped
RescanError(kind) ==
    /\ \/ /\ kind = "scan"
          /\ mgr = "sleep"
          /\ running
          /\ missing_names # {}
       \/ /\ kind = "bind"
          /\ mgr = "rescan_loop"
          /\ starting = NoDev
          /\ found # {}
    /\ rescan' = TickOver(kind)
    /\ found' = {}
    /\ mgr' = after_tick_error
    /\ UNCHANGED <<gatewayVars, sem_value, sem_waiters, arrivals, starting, wsUp,
                   deviceVars, observerVars>>
    /\ UNCHANGED <<binds, published, delivery, started, serviceVars, lifeVars,
                   configVars, scanVars, hello>>


(***************************************************************************)
(* SnoozManager._scan_for_targets, one call of it at a time.               *)
(***************************************************************************)
\* the identities of targets configured with the upper-cased address k
AddressOwners(targets, k) ==
    {d \in targets : cfg[d].address # "" /\ Upper(cfg[d].address) = k}
\* the identities of targets whose stripped, lower-cased match_name is k
NameOwners(targets, k) ==
    {d \in targets : cfg[d].match_name # NoName
                     /\ StripLower(cfg[d].match_name) = k}

\* the lookup maps a loop over the set "targets" can build: a key configured
\* for several targets keeps the one the loop visited last, and the order in
\* which a set of strings is visited is not fixed
AddrMaps(targets) ==
    {m \in [AddrKeys -> Devices \cup {NoDev}] :
        \A k \in AddrKeys :
            IF AddressOwners(targets, k) = {} THEN m[k] = NoDev
            ELSE m[k] \in AddressOwners(targets, k)}
NameMaps(targets) ==
    {m \in [NameKeys -> Devices \cup {NoDev}] :
        \A k \in NameKeys :
            IF NameOwners(targets, k) = {} THEN m[k] = NoDev
            ELSE m[k] \in NameOwners(targets, k)}

\* cb tries the advertised name before the address
match_name_first(sc, adv) ==
    LET addr == Upper(adv.address)
        adv_name_l == StripLower(adv.name)
    IN IF adv_name_l \in NameKeys /\ sc.name_map[adv_name_l] # NoDev
       THEN sc.name_map[adv_name_l]
       ELSE IF addr \in AddrKeys /\ sc.addr_map[addr] # NoDev
       THEN sc.addr_map[addr]
       ELSE NoDev

\* cb: the target an advertisement matches, NoDev when it matches none
matched_device_name(sc, adv) ==
    LET addr == Upper(adv.address)
        adv_name_l == StripLower(adv.name)
    IN IF addr # "" /\ addr \in AddrKeys /\ sc.addr_map[addr] # NoDev
       THEN sc.addr_map[addr]
       ELSE IF adv_name_l # "" /\ adv_name_l \in NameKeys
               /\ sc.name_map[adv_name_l] # NoDev
       THEN sc.name_map[adv_name_l]
       ELSE NoDev

\* every match is recorded, over the one the target already has
replaces_found(sc, m) == TRUE

\* "matched_device_name not in found"
not_in_found(sc, m) == sc.found[m] = NoAdv

\* found.keys()
FoundNames(sc) == {d \in Devices : sc.found[d] # NoAdv}

\* the wait ends only when the timeout has elapsed
wait_over_timeout_only(sc) == sc.left = 0

\* asyncio.wait_for(done.wait(), timeout) can return: done is set or the
\* timeout has elapsed
wait_over(sc) == sc.done \/ sc.left = 0

\* the scanner is stopped unless CancelledError ended the wait
stops_unless_cancelled(by) == by # "cancel"

\* "finally: await scanner.stop()" runs however the wait ended
stops_scanner(by) == TRUE

\* the call up to the wait: the lookup maps are built, the scanner is
\* created and started
ScanBegin(targets) ==
    /\ scan.phase = "idle"
    /\ targets # {}
    /\ \E am \in AddrMaps(targets), nm \in NameMaps(targets) :
           scan' = [IdleScan EXCEPT !.phase = "waiting", !.scanner = "running",
                                    !.targets = targets, !.addr_map = am,
                                    !.name_map = nm, !.left = ScanTicks]
    /\ seen' = NothingSeen
    /\ UNCHANGED <<gatewayVars, managerVars, deviceVars, observerVars,
                   historyVars, configVars, hello>>

\* the running scanner calls cb with an advertisement, during the wait or
\* between the end of the wait and the return of scanner.stop()
ScanAdv(adv) ==
    /\ scan.scanner = "running"
    /\ scan.advs < MaxAdvs
    /\ LET m == matched_device_name(scan, adv)
           fresh == m # NoDev /\ not_in_found(scan, m)
           found1 == IF fresh THEN [scan.found EXCEPT ![m] = adv]
                     ELSE scan.found
           complete == fresh /\ scan.targets \subseteq
                                    {d \in Devices : found1[d] # NoAdv}
       IN /\ scan' = [scan EXCEPT !.found = found1,
                                  !.done = @ \/ complete,
                                  !.advs = @ + 1]
          /\ seen' = [seen EXCEPT
                 !.addr = [d \in Devices |->
                     @[d] \/ (cfg[d].address # "" /\ adv.address # ""
                               /\ Upper(adv.address) = Upper(cfg[d].address))],
                 !.matched = IF m # NoDev THEN @ \cup {m} ELSE @,
                 !.dropped = IF m # NoDev /\ ~fresh THEN @ \cup {m} ELSE @]
    /\ UNCHANGED <<gatewayVars, managerVars, deviceVars, observerVars,
                   historyVars, configVars, hello>>

\* one tick of the timeout passes while the scan waits
ScanTick ==
    /\ scan.phase = "waiting"
    /\ scan.left > 0
    /\ ~wait_over(scan)
    /\ scan' = [scan EXCEPT !.left = @ - 1]
    /\ seen' = [seen EXCEPT !.lag = IF scan.done THEN 1 ELSE @]
    /\ UNCHANGED <<gatewayVars, managerVars, deviceVars, observerVars,
                   historyVars, configVars, hello>>

\* the wait ends: done was set ("done"), TimeoutError ("timeout"), or the
\* task was cancelled ("cancel"); the finally clause is entered
ScanWake(by) ==
    /\ scan.phase = "waiting"
    /\ \/ by = "done" /\ scan.done /\ wait_over(scan)
       \/ by = "timeout" /\ scan.left = 0 /\ wait_over(scan)
       \/ by = "cancel"
    /\ scan' = [scan EXCEPT !.phase = "stopping", !.by = by]
    /\ seen' = [seen EXCEPT !.at_wake = FoundNames(scan)]
    /\ UNCHANGED <<gatewayVars, managerVars, deviceVars, observerVars,
                   historyVars, configVars, hello>>

\* scanner.stop() returns; found is returned (CancelledError is re-raised
\* after a cancellation)
ScanStop ==
    /\ scan.phase = "stopping"
    /\ scan' = [scan EXCEPT !.phase = "ended",
                            !.scanner = IF stops_scanner(scan.by)
                                        THEN "stopped" ELSE @]
    /\ UNCHANGED <<gatewayVars, managerVars, deviceVars, observerVars,
                   historyVars, configVars, hello, seen>>

\* the caller has used the result; a later pass may scan again
ScanReturn ==
    /\ scan.phase = "ended"
    /\ scan.scanner = "stopped"
    /\ scan' = IdleScan
    /\ seen' = NothingSeen
    /\ UNCHANGED <<gatewayVars, managerVars, deviceVars, observerVars,
                   historyVars, configVars, hello>>

(***************************************************************************)
(* BleSnooz.bind_discovery on the matches a scan returned.                 *)
(***************************************************************************)
\* the discovered address taken as the radio reports it
discovered_address_as_is(adv) == adv.address

\* ble_device.address.upper()
discovered_address(adv) == Upper(adv.address)

\* bind_discovery(ble_device, adv) on session d: what it returns and the
\* session's fields after it.  classified: the advertisement parses to a
\* supported model; when it does not the call returns before any assignment
bind_discovery(d, adv, classified) ==
    IF classified
    THEN [returned |-> TRUE, bound |-> TRUE, subscribed |-> TRUE,
          address |-> discovered_address(adv)]
    ELSE [returned |-> FALSE, bound |-> bound[d], subscribed |-> subscribed[d],
          address |-> address[d]]

\* one iteration of the loop over the matches of a scan that returned, up to
\* the await in dev.start(): "if not dev.is_ready() and
\* dev.bind_discovery(ble_dev, adv)"
BindFound(d, classified) ==
    /\ scan.phase = "ended"
    /\ scan.scanner = "stopped"
    /\ scan.by # "cancel"
    /\ starting = NoDev
    /\ scan.found[d] # NoAdv
    /\ scan' = [scan EXCEPT !.found[d] = NoAdv]
    /\ IF is_ready(d)
       THEN UNCHANGED <<bound, subscribed, address, binds, starting, started, seen>>
       ELSE LET b == bind_discovery(d, scan.found[d], classified)
            IN /\ bound' = [bound EXCEPT ![d] = b.bound]
               /\ subscribed' = [subscribed EXCEPT ![d] = b.subscribed]
               /\ address' = [address EXCEPT ![d] = b.address]
               /\ binds' = [binds EXCEPT ![d] = IF b.returned THEN @ + 1 ELSE @]
               /\ starting' = IF b.returned THEN d ELSE NoDev
               /\ started' = [started EXCEPT ![d] =
                      IF b.returned THEN "running" ELSE @]
               /\ seen' = [seen EXCEPT !.bind =
                      [name |-> d, adv |-> scan.found[d],
                       classified |-> classified, returned |-> b.returned]]
    /\ UNCHANGED <<gatewayVars, sem_value, sem_waiters, arrivals, mgr, found, wsUp,
                   connected, devState, evTask, evHolder, observerVars>>
    /\ UNCHANGED <<published, delivery, rescan, serviceVars, svc, called,
                   configVars, hello>>

(***************************************************************************)
(* BleSnooz.start and BleSnooz.refresh_state called on a session in        *)
(* whatever state it is in.                                                *)
(***************************************************************************)
MaxCalls == 3

\* "if not self._device: raise RuntimeError(... not discovered/bound yet)"
start_unbound(d) == ~bound[d]

\* a refresh_state that only asks for a _device
returns_early_unbound_only(d) == ~bound[d]

\* "if not self._device or not self._device.is_connected: return"
returns_early(d) == ~bound[d] \/ ~connected[d]

\* store.patch(state): whether the state read differs from the one held
patch(d, read) == read # devState[d]

\* the part of refresh_state after its guard: the forced read, and on a
\* change of the store _on_state_change()
ReadAndPatch(d, read) ==
    IF patch(d, read)
    THEN /\ devState' = [devState EXCEPT ![d] = read]
         /\ OnStateChange(d)
         /\ ObserveNotification(d)
    ELSE UNCHANGED <<devState, evTask, evHolder, age, notifs, burstEmits,
                     superseded>>

\* refresh_state() is called on session d while the manager sleeps; read is
\* what the device answers, ok whether the read returns
SessionRefresh(d, read, ok) ==
    /\ mgr = "sleep"
    /\ called.n < MaxCalls
    /\ Notifications(Devices) < MaxNotifs
    /\ IF returns_early(d)
       THEN /\ called' = [NoSessionCall EXCEPT !.n = called.n + 1,
                              !.op = "refresh_state", !.name = d]
            /\ UNCHANGED <<devState, evTask, evHolder, age, notifs, burstEmits,
                           superseded>>
       ELSE /\ called' = [n |-> called.n + 1, op |-> "refresh_state", name |-> d,
                          raised |-> IF ok THEN "none" ELSE "error",
                          radio |-> TRUE, read |-> IF ok THEN read ELSE NullState]
            /\ IF ok THEN ReadAndPatch(d, read)
               ELSE UNCHANGED <<devState, evTask, evHolder, age, notifs,
                                burstEmits, superseded>>
    /\ UNCHANGED <<gatewayVars, managerVars, bound, connected, lastEvent, inbox>>
    /\ UNCHANGED <<binds, published, delivery, started, rescan, serviceVars,
                   subscribed, svc, address, configVars, scanVars, hello>>

\* start() is called on session d while the manager sleeps: on a session
\* without _device it raises at once; otherwise async_get_info connects
\* (connects: it returns) and refresh_state follows
SessionStart(d, connects, read, ok) ==
    /\ mgr = "sleep"
    /\ called.n < MaxCalls
    /\ Notifications(Devices) < MaxNotifs
    /\ IF start_unbound(d)
       THEN /\ called' = [NoSessionCall EXCEPT !.n = called.n + 1,
                              !.op = "start", !.name = d, !.raised = "not_bound"]
            /\ UNCHANGED <<connected, started, devState, evTask, evHolder, age,
                           notifs, burstEmits, superseded>>
       ELSE /\ called' = [n |-> called.n + 1, op |-> "start", name |-> d,
                          raised |-> IF connects /\ ok THEN "none" ELSE "error",
                          radio |-> TRUE,
                          read |-> IF connects /\ ok THEN read ELSE NullState]
            /\ connected' = [connected EXCEPT ![d] = connects]
            /\ started' = [started EXCEPT ![d] =
                   IF connects /\ ok THEN "done" ELSE "failed"]
            /\ IF connects /\ ok THEN ReadAndPatch(d, read)
               ELSE UNCHANGED <<devState, evTask, evHolder, age, notifs,
                                burstEmits, superseded>>
    /\ UNCHANGED <<gatewayVars, managerVars, bound, lastEvent, inbox>>
    /\ UNCHANGED <<binds, published, delivery, rescan, serviceVars, subscribed,
                   svc, address, configVars, scanVars, hello>>

(***************************************************************************)
(* Gateway: one _handler coroutine per connection.                         *)
(***************************************************************************)
\* auth_header.startswith("Bearer ")
StartsWithBearer(h) == h \in {"Bearer secret", "Bearer  secret ", "Bearer wrong"}
\* auth_header.removeprefix("Bearer ").strip()
BearerToken(h) == IF h = "Bearer wrong" THEN "wrong" ELSE "secret"

\* a server that accepts every handshake
process_request_open(header) == "accept"

\* WebSocketServer._process_request: None ("accept") or the HTTP status of
\* the rejection
process_request(header) ==
    IF auth_token = NoToken THEN "accept"
    ELSE IF header = Absent \/ ~StartsWithBearer(header) THEN "unauthorized"
    ELSE IF BearerToken(header) # auth_token THEN "forbidden"
    ELSE "accept"

\* a client opens a connection after the server is up.  Rejected by
\* _process_request, the connection gets the HTTP error and no handler;
\* accepted, _handler adds it to _clients and waits for its first frame
Handshake(c, header) ==
    /\ wsUp
    /\ ws[c] = "new"
    /\ hello' = [hello EXCEPT ![c] = header]
    /\ IF process_request(header) = "accept"
       THEN /\ ws' = [ws EXCEPT ![c] = "open"]
            /\ handler' = [handler EXCEPT ![c] = "running"]
            /\ clients' = clients \cup {c}
       ELSE /\ ws' = [ws EXCEPT ![c] = process_request(header)]
            /\ UNCHANGED <<handler, clients>>
    /\ UNCHANGED <<pc, req, reqReady, nresp, resp, managerVars, deviceVars,
                   observerVars>>
    /\ UNCHANGED <<historyVars, configVars, scanVars>>

\* a client that sends no Authorization header connects
Connect(c) == Handshake(c, Absent)

\* _safe_send of a response: delivered on an open transport, otherwise the
\* send fails and the connection is dropped from _clients
SendResponse(c, r) ==
    IF ws[c] = "open"
    THEN /\ nresp' = [nresp EXCEPT ![c] = @ + 1]
         /\ resp' = [resp EXCEPT ![c] = r]
         /\ clients' = clients
    ELSE /\ clients' = clients \ {c}
         /\ UNCHANGED <<nresp, resp>>

\* a handler that returns without its finally clause
handler_returns(c) == clients

\* "finally: self._clients.discard(websocket)" of _handler
handler_finally(c) == clients \ {c}

\* every message handled in a task of its own
handler_free_always(c) == TRUE

\* "await self._handle_message(websocket, raw)" inside the "async for": the
\* handler is back at the iterator only when the message before is done
handler_free(c) == pc[c] = "idle"

\* the frames of client c the library holds for the handler
Waiting(c) == wire[c].taken < Len(wire[c].msgs)

\* the response log is kept for the clients whose frames are recorded
Logged(c, rid) ==
    IF wire[c].msgs # <<>> /\ ws[c] = "open"
    THEN [wire EXCEPT ![c].answers = Append(@, rid)]
    ELSE wire

\* client c sends frame f: the library queues it for the handler
Arrive(c, f) ==
    /\ ws[c] = "open"
    /\ Len(wire[c].msgs) < MaxMsgs
    /\ wire' = [wire EXCEPT ![c].msgs = Append(@, f)]
    /\ UNCHANGED <<gatewayVars, managerVars, deviceVars, observerVars>>
    /\ UNCHANGED <<binds, published, delivery, started, rescan, registry,
                   executed, held, api, lifeVars, configVars, scanVars, hello>>

\* "async for raw in websocket" yields frame f, the oldest frame waiting or,
\* with none waiting, one that arrives now: _handle_message runs up to its
\* first suspension (the semaphore or the device), or to its end
Receive(c, f) ==
    /\ ws[c] = "open"
    /\ handler[c] = "running"
    /\ handler_free(c)
    /\ Waiting(c) => f = wire[c].msgs[wire[c].taken + 1]
    /\ req' = [req EXCEPT ![c] = f]
    /\ reqReady' = [reqReady EXCEPT ![c] =
           f.kind = "object" /\ get_device_known(f.device_name)
           /\ is_ready(f.device_name)]
    /\ LET o == HandleMessage(f)
       IN CASE o.t = "crash" ->
                \* the exception reaches _handler: logged, the finally clause
                \* discards the client, the handler returns and the library
                \* closes the connection
                /\ handler' = [handler EXCEPT ![c] = "crashed"]
                /\ ws' = [ws EXCEPT ![c] = "closed"]
                /\ clients' = handler_finally(c)
                /\ nresp' = [nresp EXCEPT ![c] = 0]
                /\ resp' = [resp EXCEPT ![c] = NoResp]
                /\ UNCHANGED <<pc, sem_value, sem_waiters, arrivals>>
            [] o.t = "reply" ->
                /\ nresp' = [nresp EXCEPT ![c] = 1]
                /\ resp' = [resp EXCEPT ![c] =
                       ResponseWith(o.rid, o.status, o.error, o.data)]
                /\ UNCHANGED <<handler, ws, clients, pc, sem_value, sem_waiters,
                               arrivals>>
            [] o.t = "gate" ->
                \* _with_ble_lock: Semaphore.acquire()
                /\ nresp' = [nresp EXCEPT ![c] = 0]
                /\ resp' = [resp EXCEPT ![c] = NoResp]
                /\ arrivals' = Append(arrivals, c)
                /\ IF ~sem_locked
                   THEN /\ sem_value' = sem_value - 1
                        /\ pc' = [pc EXCEPT ![c] = "exec"]
                        /\ UNCHANGED sem_waiters
                   ELSE /\ sem_waiters' = Append(sem_waiters, c)
                        /\ pc' = [pc EXCEPT ![c] = "wait"]
                        /\ UNCHANGED sem_value
                /\ UNCHANGED <<handler, ws, clients>>
    /\ executed' = [executed EXCEPT ![c] = "none"]
    /\ held' = [held EXCEPT ![c] = HandleMessage(f).t = "reply" /\ sem_locked]
    /\ LET o == HandleMessage(f)
           w == IF o.t = "reply" THEN Logged(c, o.rid) ELSE wire
       IN wire' = IF Waiting(c) THEN [w EXCEPT ![c].taken = @ + 1] ELSE w
    /\ UNCHANGED <<mgr, found, starting, wsUp, deviceVars, observerVars>>
    /\ UNCHANGED <<binds, published, delivery, started, rescan, registry, api,
                   lifeVars, configVars, scanVars, hello>>

\* a woken waiter resumes inside acquire(): it leaves the deque and enters
\* coro_factory()
Resume(c) ==
    /\ pc[c] = "granted"
    /\ sem_waiters' = Without(sem_waiters, c)
    /\ pc' = [pc EXCEPT ![c] = "exec"]
    /\ UNCHANGED <<ws, handler, clients, req, reqReady, nresp, resp, sem_value,
                   arrivals, mgr, found, starting, wsUp, deviceVars, observerVars>>
    /\ UNCHANGED <<historyVars, configVars, scanVars, hello>>

\* a result is taken for a success whatever its status
ensure_success_skipped(outcome) == outcome # "raised"

\* SnoozManager.ensure_success(result) returns: the operation produced a result
\* and its status is SUCCESSFUL
ensure_success(outcome) == outcome = "SUCCESSFUL"

\* the response of an action command whose device operation ended: ok after
\* ensure_success, otherwise str(exc) of what was raised, by ensure_success
\* ("command_failed: <status>") or by the operation itself
CommandResponse(rid, outcome) ==
    IF ensure_success(outcome)
    THEN Response(rid, "ok", "none")
    ELSE IF outcome = "failed_status"
    THEN Response(rid, "error", "command_failed")
    ELSE Response(rid, "error", "device_error")

\* dev._device.async_execute_command(...) ends.  outcome: "SUCCESSFUL", a
\* result with another status ("failed_status"), or an exception ("raised").
\* The semaphore is released, the next waiter woken and the response sent.
ExecDone(c, outcome) ==
    /\ pc[c] = "exec"
    /\ LET woken == IF with_ble_lock_releases(outcome)
                    THEN wake_up_next(sem_waiters) ELSE NoConn
       IN /\ sem_value' =
                 IF ~with_ble_lock_releases(outcome) THEN sem_value
                 ELSE IF woken = NoConn THEN sem_value + 1
                 ELSE sem_value
          /\ pc' = [x \in Conns |->
                 IF x = c THEN "idle"
                 ELSE IF x = woken THEN "granted"
                 ELSE pc[x]]
    /\ arrivals' = Without(arrivals, c)
    /\ SendResponse(c, CommandResponse(RequestIdOf(req[c]), outcome))
    /\ executed' = [executed EXCEPT ![c] = outcome]
    /\ wire' = Logged(c, RequestIdOf(req[c]))
    /\ UNCHANGED <<ws, handler, req, reqReady, sem_waiters, mgr, found, starting,
                   wsUp, deviceVars, observerVars>>
    /\ UNCHANGED <<binds, published, delivery, started, rescan, registry, held,
                   api, lifeVars, configVars, scanVars, hello>>

\* the client closes its connection
ClientClose(c) ==
    /\ ws[c] = "open"
    /\ ws' = [ws EXCEPT ![c] = "closed"]
    /\ UNCHANGED <<handler, clients, pc, req, reqReady, nresp, resp, managerVars,
                   deviceVars, observerVars>>
    /\ UNCHANGED <<historyVars, configVars, scanVars, hello>>

\* "async for" ends with ConnectionClosed once the handler is back at it: the
\* finally clause discards the client
HandlerExit(c) ==
    /\ ws[c] = "closed"
    /\ handler[c] = "running"
    /\ pc[c] = "idle"
    /\ handler' = [handler EXCEPT ![c] = "ended"]
    /\ clients' = handler_finally(c)
    /\ UNCHANGED <<ws, pc, req, reqReady, nresp, resp, managerVars, deviceVars,
                   observerVars>>
    /\ UNCHANGED <<historyVars, configVars, scanVars, hello>>

(***************************************************************************)
(* Device sessions: raw notifications and the _emit task.                  *)
(***************************************************************************)
\* pysnooz changes the state of a bound device and calls the subscribed
\* _on_state_change
Notify(d, newState) ==
    /\ bound[d]
    /\ subscribed[d]
    /\ Notifications(Devices) < MaxNotifs
    /\ devState' = [devState EXCEPT ![d] = newState]
    /\ OnStateChange(d)
    /\ ObserveNotification(d)
    /\ UNCHANGED <<gatewayVars, managerVars, bound, connected, lastEvent, inbox>>
    /\ UNCHANGED <<historyVars, configVars, scanVars, hello>>

\* a cancelled _emit leaves "async with self._event_lock" with CancelledError
EmitUnwind(d) ==
    /\ evHolder[d].phase # "free"
    /\ evHolder[d].cancelled
    /\ evHolder' = [evHolder EXCEPT ![d] = NoHolder]
    /\ UNCHANGED <<gatewayVars, managerVars, bound, connected, devState, evTask,
                   observerVars>>
    /\ UNCHANGED <<historyVars, configVars, scanVars, hello>>

\* a sleep one tick shorter than the debounce delay
short_sleep == DebounceTicks - 1

\* the ticks _emit sleeps before it builds the event
sleep_delay == DebounceTicks

\* an _emit that does not take the lock
event_lock_never_locked(d) == FALSE

\* self._event_lock.locked(): an _emit task is inside "async with"
event_lock_locked(d) == evHolder[d].phase # "free"

\* the current task takes the free _event_lock and starts asyncio.sleep(0.25)
EmitAcquire(d) ==
    /\ evTask[d] = "waiting"
    /\ ~event_lock_locked(d)
    /\ evTask' = [evTask EXCEPT ![d] = "holding"]
    /\ evHolder' = [evHolder EXCEPT ![d] =
           [phase |-> "sleep", cancelled |-> FALSE, remaining |-> sleep_delay,
            born |-> notifs[d], event |-> NoEvent, pending |-> {}]]
    /\ UNCHANGED <<gatewayVars, managerVars, bound, connected, devState,
                   observerVars>>
    /\ UNCHANGED <<historyVars, configVars, scanVars, hello>>

\* the sleep is over: _emit builds the event from snapshot() and calls the
\* state callbacks: _broadcast_event, then _handle_manager_event, which
\* starts one _safe_send per client of list(self._clients)
EmitWake(d) ==
    /\ evHolder[d].phase = "sleep"
    /\ ~evHolder[d].cancelled
    /\ evHolder[d].remaining = 0
    /\ LET event == [device_name |-> d, state |-> devState[d],
                     born |-> evHolder[d].born]
       IN /\ lastEvent' = [lastEvent EXCEPT ![d] =
                 [state |-> event.state, born |-> event.born, age |-> age[d]]]
          /\ IF clients = {}
             THEN /\ evHolder' = [evHolder EXCEPT ![d] = NoHolder]
                  /\ evTask' = [evTask EXCEPT ![d] = IF @ = "holding" THEN "done" ELSE @]
             ELSE /\ evHolder' = [evHolder EXCEPT ![d] =
                         [@ EXCEPT !.phase = "deliver", !.event = event,
                                   !.pending = clients]]
                  /\ evTask' = evTask
          /\ published' = Append(published, event)
          /\ delivery' = [delivery EXCEPT ![d] =
                 [targets |-> clients, failed |-> {}, returned |-> clients = {}]]
    /\ burstEmits' = [burstEmits EXCEPT ![d] = @ + 1]
    /\ UNCHANGED <<gatewayVars, managerVars, bound, connected, devState, age,
                   notifs, superseded, inbox>>
    /\ UNCHANGED <<configVars, scanVars, hello, binds, started, rescan,
                   serviceVars, lifeVars>>

\* the position of event e in the publish order (0 when not published)
PublishIndex(e) ==
    IF \E i \in 1..Len(published) : published[i] = e
    THEN CHOOSE i \in 1..Len(published) : published[i] = e
    ELSE 0

\* sends to one client that complete in any order
send_any_order(d, c) == TRUE

\* the _safe_send tasks of a publish are created, and so first run and
\* write to their client, before those of every later publish (asyncio runs
\* ready tasks first in, first out): the send of d's event to c is not
\* overtaken by the send of an event published later
send_in_turn(d, c) ==
    \A d0 \in Devices \ {d} :
        ~(/\ evHolder[d0].phase = "deliver"
          /\ ~evHolder[d0].cancelled
          /\ c \in evHolder[d0].pending
          /\ PublishIndex(evHolder[d0].event) < PublishIndex(evHolder[d].event))

\* a failed send that ends the whole publish
failed_send_aborts(pending, c) == {}

\* _safe_send catches the failure of its own send, and both gathers collect
\* exceptions: the other sends of the publish go on
after_failed_send(pending, c) == pending \ {c}

\* one _safe_send of the gather ends: the event reaches the client, or the
\* send fails and the client is discarded; after the last one _emit returns
\* and frees the lock
EmitDeliver(d, c) ==
    /\ evHolder[d].phase = "deliver"
    /\ ~evHolder[d].cancelled
    /\ c \in evHolder[d].pending
    /\ send_in_turn(d, c)
    /\ LET sent == ws[c] = "open"
           rest == IF sent THEN evHolder[d].pending \ {c}
                   ELSE after_failed_send(evHolder[d].pending, c)
       IN /\ IF sent
             THEN /\ inbox' = [inbox EXCEPT ![c] = Append(@, evHolder[d].event)]
                  /\ clients' = clients
             ELSE /\ clients' = clients \ {c}
                  /\ inbox' = inbox
          /\ delivery' = [delivery EXCEPT ![d] =
                 [@ EXCEPT !.failed = IF sent THEN @ ELSE @ \cup {c},
                           !.returned = rest = {}]]
          /\ IF rest = {}
             THEN /\ evHolder' = [evHolder EXCEPT ![d] = NoHolder]
                  /\ evTask' = [evTask EXCEPT ![d] =
                         IF @ = "holding" THEN "done" ELSE @]
             ELSE /\ evHolder' = [evHolder EXCEPT ![d] = [@ EXCEPT !.pending = rest]]
                  /\ evTask' = evTask
    /\ UNCHANGED <<ws, handler, pc, req, reqReady, nresp, resp, managerVars, bound,
                   connected, devState, age, notifs, burstEmits, lastEvent,
                   superseded>>
    /\ UNCHANGED <<configVars, scanVars, hello, binds, published, started,
                   rescan, serviceVars, lifeVars>>

\* one clock tick (half the debounce delay) passes
Tick ==
    /\ age' = [d \in Devices |->
           IF age[d] < DebounceTicks THEN age[d] + 1 ELSE age[d]]
    /\ evHolder' = [d \in Devices |->
           IF evHolder[d].phase = "sleep" /\ evHolder[d].remaining > 0
           THEN [evHolder[d] EXCEPT !.remaining = @ - 1]
           ELSE evHolder[d]]
    /\ (age' # age \/ evHolder' # evHolder)
    /\ UNCHANGED <<gatewayVars, managerVars, bound, connected, devState, evTask,
                   notifs, burstEmits, lastEvent, superseded, inbox>>
    /\ UNCHANGED <<historyVars, configVars, scanVars, hello>>

(***************************************************************************)
(* Shutdown: main() runs "await ws.stop()" and then "await manager.stop()" *)
(* and returns.  The rescan task is cancelled, not awaited; a cancellation *)
(* that reaches asyncio.wait_for (CPython 3.11) when the awaited           *)
(* done.wait() has already finished is taken back: wait_for returns the    *)
(* result instead of raising CancelledError.                               *)
(***************************************************************************)
\* the stop signal: WebSocketServer.stop() closes the server, which stops
\* listening and closes every open connection, and waits in wait_closed()
WsStop ==
    /\ svc.stop = "no"
    /\ wsUp
    /\ wsUp' = FALSE
    /\ ws' = [c \in Conns |-> IF ws[c] = "open" THEN "closed" ELSE ws[c]]
    /\ svc' = [svc EXCEPT !.stop = "gateway"]
    /\ UNCHANGED <<handler, clients, pc, req, reqReady, nresp, resp, sem_value,
                   sem_waiters, arrivals, mgr, found, starting, deviceVars,
                   observerVars>>
    /\ UNCHANGED <<binds, published, delivery, started, rescan, serviceVars,
                   subscribed, address, called, configVars, scanVars, hello>>

\* wait_closed() returns once every connection handler has ended; what is
\* left in _clients is closed and discarded by _safe_close
WsStopped ==
    /\ svc.stop = "gateway"
    /\ \A c \in Conns : handler[c] # "running"
    /\ clients' = {}
    /\ svc' = [svc EXCEPT !.stop = "gateway_done"]
    /\ UNCHANGED <<ws, handler, pc, req, reqReady, nresp, resp, managerVars,
                   deviceVars, observerVars>>
    /\ UNCHANGED <<binds, published, delivery, started, rescan, serviceVars,
                   subscribed, address, called, configVars, scanVars, hello>>

\* "for dev in self._devices.values()": the sessions in insertion order
StopOrder == registry.names

\* the first position from i on whose session has a _device, the one stop()
\* suspends at; past the end when there is none
RECURSIVE NextBound(_)
NextBound(i) ==
    IF i > Len(StopOrder) THEN i
    ELSE IF bound[StopOrder[i]] THEN i
    ELSE NextBound(i + 1)

\* the sessions whose stop() runs when the loop goes on from position i up
\* to its next await
StoppedFrom(i) ==
    {StopOrder[k] : k \in {k \in i..Len(StopOrder) : k <= NextBound(i)}}

\* BleSnooz.stop() up to "await self._device.async_disconnect()" for these
\* sessions: the event task that is not done is cancelled, the subscription
\* removed
SessionsStop(i) ==
    /\ evTask' = [d \in Devices |->
           IF d \in StoppedFrom(i) /\ evTask[d] \in {"waiting", "holding"}
           THEN "done" ELSE evTask[d]]
    /\ evHolder' = [d \in Devices |->
           IF d \in StoppedFrom(i) /\ evTask[d] = "holding"
           THEN [evHolder[d] EXCEPT !.cancelled = TRUE] ELSE evHolder[d]]
    /\ subscribed' = [d \in Devices |-> subscribed[d] /\ d \notin StoppedFrom(i)]

\* where manager.stop() is after going on from position i: waiting for the
\* disconnect of the next bound session, or returned
StopFrom(s, i) ==
    IF NextBound(i) > Len(StopOrder)
    THEN [s EXCEPT !.stop = "done", !.at = NextBound(i)]
    ELSE [s EXCEPT !.stop = "manager", !.at = NextBound(i),
                   !.disconnect[StopOrder[NextBound(i)]] = "requested"]

\* SnoozManager.stop() up to its first await: _running = False, the rescan
\* task is cancelled, the sessions are stopped in order.  The task is
\* suspended in its sleep or scan (mgr "sleep") or in dev.start().  fate
\* "delivered": CancelledError is raised in the task and _rescan_loop
\* returns.  fate "swallowed": the task was in wait_for and the scan had just
\* matched its last target; wait_for returns, the tick goes on with every
\* target found
ManagerStop(fate) ==
    /\ svc.stop = "gateway_done"
    /\ mgr = "sleep" \/ starting # NoDev
    /\ IF fate = "swallowed"
       THEN /\ mgr = "sleep"
            /\ missing_names # {}
            /\ found' = missing_names
            /\ mgr' = "rescan_loop"
            /\ rescan' = Ticked(missing_names)
            /\ UNCHANGED <<starting, started>>
       ELSE /\ mgr' = "cancelled"
            /\ found' = {}
            /\ starting' = NoDev
            /\ started' = [d \in Devices |->
                   IF d = starting THEN "cancelled" ELSE started[d]]
            /\ UNCHANGED rescan
    /\ svc' = StopFrom([svc EXCEPT !.cancel = fate], 1)
    /\ SessionsStop(1)
    /\ UNCHANGED <<gatewayVars, sem_value, sem_waiters, arrivals, wsUp, bound,
                   connected, devState, observerVars>>
    /\ UNCHANGED <<binds, published, delivery, serviceVars, address, called,
                   configVars, scanVars, hello>>

\* async_disconnect of the session manager.stop() waits for returns or
\* raises (logged); the loop goes on with the sessions after it
DisconnectDone(d, ok) ==
    /\ svc.stop = "manager"
    /\ StopOrder[svc.at] = d
    /\ svc.disconnect[d] = "requested"
    /\ connected' = [connected EXCEPT ![d] = IF ok THEN FALSE ELSE @]
    /\ svc' = StopFrom([svc EXCEPT !.disconnect[d] =
                            IF ok THEN "done" ELSE "failed"], svc.at + 1)
    /\ SessionsStop(svc.at + 1)
    /\ UNCHANGED <<gatewayVars, managerVars, bound, devState, observerVars>>
    /\ UNCHANGED <<binds, published, delivery, started, rescan, serviceVars,
                   address, called, configVars, scanVars, hello>>

(***************************************************************************)
(* Specifications.  All interleave the manager's discovery and rescan.     *)
(*   Spec          one connection sending every frame of the alphabet,     *)
(*                 closing at any time;                                    *)
(*   SpecGate      three connections contending for the semaphore with     *)
(*                 valid action commands;                                  *)
(*   SpecDebounce  two listening connections, raw notifications, the       *)
(*                 clock and the emission tasks of _on_state_change;       *)
(*   SpecEvents    the same, with one listening connection closing;        *)
(*   SpecClose     SpecGate with one connection closing;                   *)
(*   SpecAuth      handshakes with every Authorization header, with and    *)
(*                 without a configured token.                             *)
(*   SpecStop      one connection, its command, notifications, and the     *)
(*                 shutdown of main() at any time after startup;           *)
(*   SpecSession   start() and refresh_state() called on any session;      *)
(*   SpecReads     two connections contending for the semaphore and one    *)
(*                 sending get_state, heartbeat and list_devices;          *)
(*   SpecOrder     three connections whose frames queue up ahead of        *)
(*                 their handlers;                                         *)
(*   SpecClients   (SpecClientsFair with fairness) two connections with    *)
(*                 commands, one closing, and one published event;         *)
(*   SpecDebounceFair  SpecDebounce with fairness on the clock and on      *)
(*                 the emission tasks;                                     *)
(*   SpecSupervisor (SpecSupervisorFair with fairness) the manager alone,  *)
(*                 with ticks that raise and every outcome of start().     *)
(* SpecScan (SpecScanFair with fairness) explores _scan_for_targets alone, *)
(* SpecBind the passes of scan, bind_discovery and start(), SpecRegistry   *)
(* the registry of a manager that has not been started, SpecLifecycle      *)
(* start() and stop() called in any order on one manager.                  *)
(***************************************************************************)
DeviceOutcomes == {"SUCCESSFUL", "failed_status", "raised"}
GateOutcomes == {"SUCCESSFUL", "raised"}
\* start() outcomes drawn by the gateway specifications
GatewayStartResults == {"connect_failed", "changed"}
DeviceStates == {1, 2}

ManagerNext(results, states) ==
    \/ InitialScan
    \/ \E d \in Devices, classified \in BOOLEAN : LoopBind(d, classified)
    \/ \E d \in Devices, r \in results, st \in states : StartDone(d, r, st)
    \/ LoopEnd
    \/ RescanTick

\* start() outcomes drawn for the supervisor
SupervisorStartResults == {"connect_failed", "read_failed", "same", "changed"}

\* the manager alone, with ticks that raise and every outcome of start()
SupervisorNext ==
    \/ ManagerNext(SupervisorStartResults, DeviceStates)
    \/ \E kind \in {"scan", "bind"} : RescanError(kind)

Next ==
    \/ ManagerNext(GatewayStartResults, {1})
    \/ \E c \in ProtoConns : Connect(c)
    \/ \E c \in ProtoConns : \E f \in Frames : Receive(c, f)
    \/ \E c \in ProtoConns, o \in DeviceOutcomes : ExecDone(c, o)
    \/ \E c \in ProtoConns : ClientClose(c)
    \/ \E c \in ProtoConns : HandlerExit(c)

Spec == Init /\ [][Next]_vars

NextGate ==
    \/ ManagerNext(GatewayStartResults, {1})
    \/ \E c \in Conns : Connect(c)
    \/ \E c \in Conns : \E f \in GateFrames(c) : Receive(c, f)
    \/ \E c \in Conns : Resume(c)
    \/ \E c \in Conns, o \in GateOutcomes : ExecDone(c, o)

SpecGate == Init /\ [][NextGate]_vars

\* clients that listen for events while the debounce is explored
EventConns == {"c1", "c2"}

NextDebounce ==
    \/ ManagerNext({"changed"}, {1})
    \/ \E c \in EventConns : Connect(c)
    \/ \E d \in Devices, st \in DeviceStates : Notify(d, st)
    \/ \E d \in Devices : EmitUnwind(d)
    \/ \E d \in Devices : EmitAcquire(d)
    \/ \E d \in Devices : EmitWake(d)
    \/ \E d \in Devices, c \in Conns : EmitDeliver(d, c)
    \/ Tick

SpecDebounce == Init /\ [][NextDebounce]_vars

\* time passes and the event loop runs every _emit task that can go on: a
\* cancelled one unwinds, the one waiting for the free lock takes it, a sleep
\* that is over ends, and every send to a client ends
DebounceFairness ==
    /\ WF_vars(Tick)
    /\ \A d \in Devices :
          /\ WF_vars(EmitUnwind(d))
          /\ WF_vars(EmitAcquire(d))
          /\ WF_vars(EmitWake(d))
          /\ \A c \in Conns : WF_vars(EmitDeliver(d, c))

SpecDebounceFair == SpecDebounce /\ DebounceFairness

\* the client whose connection closes while events are published
ClosingConn == "c1"

\* events published to two listening clients, one of which closes at any time
NextEvents ==
    \/ ManagerNext({"changed"}, {1})
    \/ \E c \in EventConns : Connect(c)
    \/ \E d \in Devices : Notify(d, 2)
    \/ \E d \in Devices : EmitUnwind(d)
    \/ \E d \in Devices : EmitAcquire(d)
    \/ \E d \in Devices : EmitWake(d)
    \/ \E d \in Devices, c \in Conns : EmitDeliver(d, c)
    \/ Tick
    \/ ClientClose(ClosingConn)
    \/ HandlerExit(ClosingConn)

SpecEvents == Init /\ [][NextEvents]_vars

\* the connections contending for the gate, one of them closing at any time
NextClose ==
    \/ NextGate
    \/ ClientClose(ClosingConn)
    \/ HandlerExit(ClosingConn)

SpecClose == Init /\ [][NextClose]_vars

\* scans for every set of targets under every configuration of two devices,
\* with any advertisements, timeouts and cancellation
ScanNext ==
    \/ \E targets \in SUBSET Devices : ScanBegin(targets)
    \/ \E adv \in Advertisements : ScanAdv(adv)
    \/ ScanTick
    \/ \E by \in {"done", "timeout", "cancel"} : ScanWake(by)
    \/ ScanStop
    \/ ScanReturn

SpecScan == InitScan /\ [][ScanNext]_vars

\* the clock advances, a wait that can return does, and scanner.stop()
\* returns
ScanFairness ==
    /\ WF_vars(ScanTick)
    /\ WF_vars(ScanWake("done") \/ ScanWake("timeout"))
    /\ WF_vars(ScanStop)

SpecScanFair == SpecScan /\ ScanFairness

\* every match of the pass has been through the loop
MatchesProcessed ==
    /\ starting = NoDev
    /\ \A d \in Devices : scan.found[d] = NoAdv

\* the passes of the manager one after the other: a scan for the sessions
\* that are not ready, then bind_discovery and start() on its matches
BindNext ==
    \/ ScanBegin(missing_names)
    \/ \E adv \in Advertisements : ScanAdv(adv)
    \/ ScanTick
    \/ \E by \in {"done", "timeout"} : ScanWake(by)
    \/ ScanStop
    \/ \E d \in Devices, classified \in BOOLEAN : BindFound(d, classified)
    \/ \E d \in Devices, r \in GatewayStartResults : StartDone(d, r, 1)
    \/ MatchesProcessed /\ ScanReturn

SpecBind == Init /\ [][BindNext]_vars

\* the manager, and start() and refresh_state() called on any session
SessionNext ==
    \/ ManagerNext(GatewayStartResults, {1})
    \/ \E d \in Devices, read \in DeviceStates, ok \in BOOLEAN :
           SessionRefresh(d, read, ok)
    \/ \E d \in Devices, connects \in BOOLEAN, read \in DeviceStates,
          ok \in BOOLEAN : SessionStart(d, connects, read, ok)

SpecSession == Init /\ [][SessionNext]_vars

\* what the clients send when the order of their frames is followed: an
\* action command, a heartbeat and a get_state, the ids telling them apart
OrderFrames ==
    {f \in ObjectFrames :
        /\ f.type = "command"
        /\ \/ f \in ValidActionFrames /\ f.command = "noise_off"
              /\ f.device_name = "d1" /\ f.rid = "x1"
           \/ f.command = "heartbeat" /\ f.rid = Null /\ f.device_name = Absent
              /\ f.argKind = Absent}

\* the handler takes the oldest frame waiting
Take(c) == Waiting(c) /\ Receive(c, wire[c].msgs[wire[c].taken + 1])

\* every client sends up to MaxMsgs frames ahead of the handler
NextOrder ==
    \/ ManagerNext({"changed"}, {1})
    \/ \E c \in Conns : Connect(c)
    \/ \E c \in Conns : \E f \in OrderFrames : Arrive(c, f)
    \/ \E c \in Conns : Take(c)
    \/ \E c \in Conns : Resume(c)
    \/ \E c \in Conns, o \in GateOutcomes : ExecDone(c, o)

SpecOrder == Init /\ [][NextOrder]_vars

\* what the clients of a changing client set send: an action command and,
\* from the client that closes, a frame whose handling raises
ClientsFrames(c) ==
    {f \in GateFrames("c1") : f.command = "noise_off" /\ f.device_name = "d1"}
    \cup {f \in RawFrames : f.kind = "non_object" /\ c = ClosingConn}

\* two clients connect and send commands, one of them closes at any time,
\* and one event of d1 (no emission is cancelled) is published to them
NextClients ==
    \/ ManagerNext({"changed"}, {1})
    \/ \E c \in EventConns : Connect(c)
    \/ \E c \in EventConns : \E f \in ClientsFrames(c) : Receive(c, f)
    \/ \E c \in EventConns : Resume(c)
    \/ \E c \in EventConns : ExecDone(c, "SUCCESSFUL")
    \/ ClientClose(ClosingConn)
    \/ HandlerExit(ClosingConn)
    \/ Notifications(Devices) = 0 /\ Notify("d1", 2)
    \/ EmitAcquire("d1")
    \/ EmitWake("d1")
    \/ \E c \in Conns : EmitDeliver("d1", c)
    \/ Tick

SpecClients == Init /\ [][NextClients]_vars

\* the event loop runs every handler that can go on: one at the iterator of a
\* closed connection leaves it, one woken in acquire() resumes, and a device
\* operation ends
ClientsFairness ==
    /\ WF_vars(HandlerExit(ClosingConn))
    /\ \A c \in EventConns :
          /\ WF_vars(Resume(c))
          /\ WF_vars(ExecDone(c, "SUCCESSFUL"))

SpecClientsFair == SpecClients /\ ClientsFairness

(***************************************************************************)
(* SnoozManager.start and SnoozManager.stop called in any order on one     *)
(* manager.  Of the initial discovery and of a pass of the rescan loop     *)
(* only the suspension is followed here (what they do to the sessions is   *)
(* in ManagerNext); call[k] is where the k-th start() is ("idle" not yet    *)
(* called, "discovery", "returned", or "ignored" when it returned at the   *)
(* guard) and loop[k] the task it created ("none", "created" not yet run,  *)
(* "sleep", "scan", "ended").                                              *)
(***************************************************************************)
ApiOnly ==
    /\ UNCHANGED <<gatewayVars, managerVars, deviceVars, observerVars>>
    /\ UNCHANGED <<binds, published, delivery, started, rescan, registry,
                   executed, held, wire, lifeVars, configVars, scanVars, hello>>

\* "if self._running: return"
start_guard == api.running

\* start() up to its first suspension: the guard, _running = True, and into
\* _initial_discovery_and_connect
StartCall(k) ==
    /\ api.call[k] = "idle"
    /\ api' = IF start_guard
              THEN [api EXCEPT !.call[k] = "ignored"]
              ELSE [api EXCEPT !.running = TRUE, !.call[k] = "discovery"]
    /\ ApiOnly

\* the initial discovery of call k is over: the rescan task is created and
\* assigned to _rescan_task, whatever was there
StartReturn(k) ==
    /\ api.call[k] = "discovery"
    /\ api' = [api EXCEPT !.call[k] = "returned", !.rescan_task = k,
                          !.loop[k] = "created"]
    /\ ApiOnly

\* stop() up to its first suspension: _running = False and cancel() on the
\* task in _rescan_task unless it is done; the task is not awaited
StopCall ==
    /\ api' = [api EXCEPT
                 !.running = FALSE,
                 !.cancelling = [k \in Starts |->
                     \/ api.cancelling[k]
                     \/ k = api.rescan_task /\ api.loop[k] # "ended"]]
    /\ api' # api
    /\ ApiOnly

\* "while self._running": the loop goes to its sleep or returns
loop_test == IF api.running THEN "sleep" ELSE "ended"

\* the task of call k runs for the first time
LoopBegin(k) ==
    /\ api.loop[k] = "created"
    /\ ~api.cancelling[k]
    /\ api' = [api EXCEPT !.loop[k] = loop_test]
    /\ ApiOnly

\* the sleep of task k ends: with every session ready it continues at the
\* test, otherwise it scans
LoopWake(k, missing) ==
    /\ api.loop[k] = "sleep"
    /\ ~api.cancelling[k]
    /\ api' = [api EXCEPT !.loop[k] = IF missing THEN "scan" ELSE loop_test]
    /\ ApiOnly

\* the scan and the binds and starts of its matches are over
LoopPassEnd(k) ==
    /\ api.loop[k] = "scan"
    /\ ~api.cancelling[k]
    /\ api' = [api EXCEPT !.loop[k] = loop_test]
    /\ ApiOnly

\* the cancellation reaches task k: it ends (CancelledError at its await, or
\* before its first step), or wait_for in the scan takes the cancellation
\* back because the wait had finished, and the pass goes on
LoopCancelled(k, fate) ==
    /\ api.cancelling[k]
    /\ api.loop[k] \in {"created", "sleep", "scan"}
    /\ fate = "swallowed" => api.loop[k] = "scan"
    /\ api' = [api EXCEPT
                 !.cancelling[k] = FALSE,
                 !.loop[k] = IF fate = "delivered" THEN "ended" ELSE @]
    /\ ApiOnly

LifecycleNext ==
    \/ \E k \in Starts : StartCall(k)
    \/ \E k \in Starts : StartReturn(k)
    \/ StopCall
    \/ \E k \in Starts : LoopBegin(k)
    \/ \E k \in Starts, missing \in BOOLEAN : LoopWake(k, missing)
    \/ \E k \in Starts : LoopPassEnd(k)
    \/ \E k \in Starts, fate \in {"delivered", "swallowed"} : LoopCancelled(k, fate)

SpecLifecycle == Init /\ [][LifecycleNext]_vars

\* what the connection that only reads sends
ReadCommands == {"get_state", "heartbeat", "list_devices"}
ReadFrames ==
    {f \in ObjectFrames :
        /\ f.type = "command"
        /\ f.command \in ReadCommands
        /\ f.rid = "x1"}
\* the connection that only reads
ReadConn == "c2"

\* c1 and c3 contend for the semaphore with action commands while c2 sends
\* get_state, heartbeat and list_devices
NextReads ==
    \/ ManagerNext(GatewayStartResults, {1})
    \/ \E c \in Conns : Connect(c)
    \/ \E c \in Conns \ {ReadConn} : \E f \in GateFrames(c) : Receive(c, f)
    \/ \E f \in ReadFrames : Receive(ReadConn, f)
    \/ \E c \in Conns : Resume(c)
    \/ \E c \in Conns, o \in GateOutcomes : ExecDone(c, o)

SpecReads == Init /\ [][NextReads]_vars

\* main() has not returned from manager.stop()
Stopping == svc.stop # "done"

\* what the client sends while the shutdown is explored: noise_off for d1
StopFrames == {f \in ValidActionFrames : f.command = "noise_off" /\ f.device_name = "d1"}
\* the session whose device notifies on its own meanwhile
StopNotifier == "d2"

\* one client and its command, notifications, and a shutdown at any time
\* after the server is up
NextStop ==
    \/ Stopping /\ ManagerNext({"connect_failed", "changed"}, {1})
    \/ Stopping /\ \E c \in ProtoConns : Connect(c)
    \/ Stopping /\ \E c \in ProtoConns : \E f \in StopFrames : Receive(c, f)
    \/ Stopping /\ \E c \in ProtoConns, o \in GateOutcomes : ExecDone(c, o)
    \/ Stopping /\ \E c \in ProtoConns : HandlerExit(c)
    \/ Stopping /\ Notify(StopNotifier, 2)
    \/ Stopping /\ \E d \in Devices : EmitUnwind(d)
    \/ Stopping /\ \E d \in Devices : EmitAcquire(d)
    \/ Stopping /\ \E d \in Devices : EmitWake(d)
    \/ Stopping /\ \E d \in Devices, c \in ProtoConns : EmitDeliver(d, c)
    \/ Stopping /\ Tick
    \/ WsStop
    \/ WsStopped
    \/ \E fate \in {"delivered", "swallowed"} : ManagerStop(fate)
    \/ \E d \in Devices, ok \in BOOLEAN : DisconnectDone(d, ok)

SpecStop == Init /\ [][NextStop]_vars

\* calls on the registry of a manager that has not been started
RegistryCall(name) ==
    /\ mgr = "init"
    /\ \/ registry' = add_device(registry, name)
       \/ registry' = get_device(registry, name)
       \/ registry' = get_device_names(registry)
    /\ UNCHANGED <<gatewayVars, managerVars, deviceVars, observerVars, binds,
                   published, delivery, started, rescan, executed, held, wire,
                   api, lifeVars,
                   configVars, scanVars, hello>>

SpecRegistry == InitRegistry /\ [][\E name \in RegNames : RegistryCall(name)]_vars

SpecSupervisor == Init /\ [][SupervisorNext]_vars

\* the sleep of the rescan loop ends, a scan returns, a start() returns
SpecSupervisorFair == SpecSupervisor /\ WF_vars(ManagerNext(SupervisorStartResults, DeviceStates))

\* two clients presenting any Authorization header to a server with or
\* without a configured token, then sending commands while events are
\* published
AuthConns == {"c1", "c2"}
AuthFrames ==
    {f \in ValidActionFrames : f.device_name = "d1" /\ f.command = "noise_on"}

NextAuth ==
    \/ ManagerNext({"changed"}, {1})
    \/ \E c \in AuthConns, h \in AuthHeaders : Handshake(c, h)
    \/ \E c \in AuthConns, f \in AuthFrames : Receive(c, f)
    \/ \E c \in AuthConns : Resume(c)
    \/ \E c \in AuthConns : ExecDone(c, "SUCCESSFUL")
    \/ \E d \in Devices : EmitAcquire(d)
    \/ \E d \in Devices : EmitWake(d)
    \/ \E d \in Devices, c \in Conns : EmitDeliver(d, c)
    \/ Tick

SpecAuth == InitAuth /\ [][NextAuth]_vars


(***************************************************************************)
(* Claims about the serializer gate (SpecGate, C2 under Spec).             *)
(***************************************************************************)
Executing == {c \in Conns : pc[c] = "exec"}
HoldingGate == {c \in Conns : pc[c] \in {"exec", "granted"}}

\* C1: action commands submitted concurrently from any connections, on the
\* same or on different devices, never run their radio transaction at the
\* same time: at most one command is inside its device execute step.
C1_AtMostOneCommandExecuting == Cardinality(Executing) <= 1

\* C1 witness: a command executes on one device while a command submitted
\* from another connection for the other device waits for the gate.
C1_Witness ==
    \E x \in Conns, y \in Conns :
        /\ pc[x] = "exec"
        /\ pc[y] = "wait"
        /\ req[x].device_name # req[y].device_name

\* C2: no radio operation overlaps another one: while BleSnooz.start() of a
\* device is on the radio (connect plus forced state read), no command
\* executes on another device.
C2_StartNeverOverlapsCommand ==
    \A c \in Conns :
        ~(/\ starting # NoDev
          /\ pc[c] = "exec"
          /\ req[c].device_name # starting)

\* C3: the gate is released after every command that acquired it, whether
\* the device operation returned or raised: the token is out exactly while a
\* command holds it, so it is free whenever no command holds it, and nobody
\* waits for a gate that nobody holds.
C3_GateReleasedAfterEveryCommand ==
    /\ sem_value + Cardinality(HoldingGate) = SemCapacity
    /\ (HoldingGate = {} => sem_value = SemCapacity)
    /\ (\E c \in Conns : pc[c] = "wait") => HoldingGate # {}

\* C3 witness: a command failed with an exception and a later command holds
\* the gate.
C3_Witness ==
    \E x \in Conns, y \in Conns :
        /\ x # y
        /\ pc[x] = "idle"
        /\ resp[x].error = "device_error"
        /\ pc[y] = "exec"
        /\ Len(arrivals) = 1

\* C4: the gate is granted in request order: the command that holds the
\* gate is the oldest of the commands that asked for it and have not
\* finished, so a command never starts before one that asked earlier.
C4_GateGrantedInFifoOrder ==
    \A c \in HoldingGate : arrivals # <<>> /\ Head(arrivals) = c

\* C4 witness: two commands queued behind a third; the older of the two has
\* been granted the gate while the younger still waits.
C4_Witness ==
    \E x \in Conns, y \in Conns :
        /\ pc[x] = "granted"
        /\ pc[y] = "wait"
        /\ arrivals = <<x, y>>

(***************************************************************************)
(* Claims about the protocol handler (Spec).                               *)
(***************************************************************************)
\* the handler has finished with the frame it took last
Handled(c) == req[c] # NoFrame /\ pc[c] = "idle"
\* the client did not close the connection before the answer could be sent
Answerable(c) == ws[c] = "open" \/ handler[c] = "crashed"

\* C7: every inbound message on an open connection gets exactly one
\* response frame, carrying the request_id the client supplied.
C7_ExactlyOneCorrelatedResponse ==
    \A c \in Conns :
        Handled(c) /\ Answerable(c) =>
            /\ nresp[c] = 1
            /\ resp[c].rid = RequestIdOf(req[c])

\* C8: no single inbound message ends the connection: whatever the frame,
\* the message loop keeps running until the client closes.
C8_NoFrameEndsTheConnection ==
    \A c \in Conns : req[c] # NoFrame => handler[c] \in {"running", "ended"}

\* C9: a frame that is not parseable JSON is answered with the error
\* invalid_json and request_id null, runs no command handler and leaves the
\* connection open.
C9_UnparseableFrameGetsInvalidJson ==
    \A c \in Conns :
        req[c].kind \in {"text_bad", "load_other"} =>
            /\ nresp[c] = 1
            /\ resp[c] = Response(Null, "error", "invalid_json")
            /\ pc[c] = "idle"
            /\ ~InSeq(arrivals, c)
            /\ handler[c] # "crashed"

\* a ranged command (set_volume, set_light_brightness) for a registered
\* device whose integer argument is outside 0..100
OutOfRangeRequest(c) ==
    /\ req[c].kind = "object"
    /\ req[c].type = "command"
    /\ req[c].command \in RangedCommands
    /\ req[c].device_name \in Devices
    /\ req[c].argKind = "int"
    /\ ~(MinPercent <= req[c].argVal /\ req[c].argVal <= MaxPercent)

RangeErrorOf(command) ==
    IF command = "set_volume" THEN "volume must be 0..100"
    ELSE "brightness must be 0..100"

NeverReachedGate(c) == pc[c] = "idle" /\ ~InSeq(arrivals, c)

\* C10 as claimed: an out-of-range set_volume or set_light_brightness, for a
\* registered device whether bound or unbound, is answered with the
\* validation error and never reaches the gate.
C10_OutOfRangeIsValidationError ==
    \A c \in Conns :
        OutOfRangeRequest(c) =>
            /\ nresp[c] = 1
            /\ resp[c].status = "error"
            /\ resp[c].error = RangeErrorOf(req[c].command)
            /\ NeverReachedGate(c)

\* C10 amended: an out-of-range set_volume or set_light_brightness for a
\* registered device is answered with an error and never reaches the gate
\* or the device; the error is the validation error when the device is
\* bound and device_unavailable when it is not.
C10_OutOfRangeNeverReachesGate ==
    \A c \in Conns :
        OutOfRangeRequest(c) =>
            /\ nresp[c] = 1
            /\ resp[c].status = "error"
            /\ resp[c].error =
                   IF reqReady[c] THEN RangeErrorOf(req[c].command)
                   ELSE "device_unavailable"
            /\ NeverReachedGate(c)

\* C10 witness: set_volume 150 on a bound device was answered with the
\* validation error while the gate is free.
C10_Witness ==
    \E c \in Conns :
        /\ OutOfRangeRequest(c)
        /\ req[c].command = "set_volume"
        /\ req[c].argVal = 150
        /\ reqReady[c]
        /\ resp[c].error = "volume must be 0..100"
        /\ sem_value = SemCapacity


(***************************************************************************)
(* Debounce of device events (SpecDebounce).                               *)
(***************************************************************************)
\* the events of device d that client c has received
EventsOf(c, d) ==
    {inbox[c][i] : i \in {j \in 1..Len(inbox[c]) : inbox[c][j].device_name = d}}

\* C5: for one device, the notifications of a burst (each less than the
\* debounce delay after the previous one) produce at most one emitted event,
\* an emission that has completed for the burst did emit one, and the event
\* of the burst is the one created by the burst's last notification and
\* carries the device state after that notification.
C5_OneEventPerBurst ==
    \A d \in Devices :
        /\ burstEmits[d] <= 1
        /\ evTask[d] = "done" => burstEmits[d] = 1
        /\ burstEmits[d] = 1 =>
               /\ lastEvent[d].born = notifs[d]
               /\ lastEvent[d].state = devState[d]

\* C5 witness: a burst of two notifications for d1 (the start's read gave
\* state 1, a raw notification less than the delay later gave state 2) and
\* both clients received one event, the one of the second notification with
\* state 2.
C5_Witness ==
    /\ notifs["d1"] = 2
    /\ superseded["d1"] = {1}
    /\ burstEmits["d1"] = 1
    /\ devState["d1"] = 2
    /\ evTask["d1"] = "done"
    /\ \A c \in EventConns :
           EventsOf(c, "d1") = {[device_name |-> "d1", state |-> 2, born |-> 2]}

\* C6: a notification that arrives while an emission is pending cancels it
\* and restarts the delay: the only emission still sleeping uncancelled is
\* the one of the latest notification, no event is built sooner than a full
\* debounce delay after the device's latest notification, and no listener
\* ever receives the event of an emission that was pending when the next
\* notification arrived.
C6_PendingEmissionCancelledAndDelayRestarted ==
    \A d \in Devices :
        /\ (evHolder[d].phase = "sleep" /\ ~evHolder[d].cancelled) =>
               /\ evHolder[d].born = notifs[d]
               /\ evHolder[d].remaining + age[d] >= DebounceTicks
        /\ lastEvent[d] # NoEmission => lastEvent[d].age >= DebounceTicks
        /\ lastEvent[d].born \notin superseded[d]
        /\ \A c \in Conns : \A e \in EventsOf(c, d) : e.born \notin superseded[d]

\* C6 witness: the emission of d1's first notification had slept one tick
\* when the second notification cancelled it; a connected client has
\* received nothing from it and only the second notification's event, built
\* a full delay after that notification.
C6_Witness ==
    /\ notifs["d1"] = 2
    /\ superseded["d1"] = {1}
    /\ "c1" \in clients
    /\ lastEvent["d1"].born = 2
    /\ lastEvent["d1"].age = DebounceTicks
    /\ inbox["c1"] = <<[device_name |-> "d1", state |-> devState["d1"], born |-> 2]>>


(***************************************************************************)
(* Claims about unready devices (Spec).                                    *)
(***************************************************************************)
\* the frame c's handler took last is command cmd for a registered device
\* that was not bound when the frame was handled
OnUnbound(c) ==
    /\ req[c].kind = "object"
    /\ req[c].type = "command"
    /\ req[c].device_name \in Devices
    /\ ~reqReady[c]

\* an action command whose own arguments are present and integers
WellFormedAction(f) ==
    /\ f.command \in ActionCommands
    /\ f.command \in RangedCommands => f.argKind = "int"

ValidAction(c) ==
    /\ req[c].kind = "object"
    /\ req[c].type = "command"
    /\ req[c].device_name \in Devices
    /\ WellFormedAction(req[c])
    /\ req[c].command \in RangedCommands =>
           MinPercent <= req[c].argVal /\ req[c].argVal <= MaxPercent

\* c's command asked for the gate and has not finished
AtGate(c) == pc[c] \in {"wait", "granted", "exec"}

Rejected(c) == ws[c] \in {"unauthorized", "forbidden"}

\* c takes no part in the service: no handler and message loop, not a
\* client, no frame taken and no command at the gate, no event received
\* or being sent to it
TakesNoPart(c) ==
    /\ handler[c] = "none"
    /\ c \notin clients
    /\ req[c] = NoFrame /\ pc[c] = "idle" /\ ~InSeq(arrivals, c)
    /\ inbox[c] = <<>>
    /\ \A d \in Devices : c \notin delivery[d].targets

\* C13: with a configured credential, a handshake without a credential is
\* rejected as unauthorized and one with a wrong credential as forbidden; a
\* rejected connection never enters the message loop, is never a client, has
\* no command executed and receives no event.  Without a configured
\* credential every connection is accepted.
C13_RejectedConnectionsTakeNoPart ==
    \A c \in Conns :
        ws[c] # "new" =>
            /\ auth_token # NoToken /\ hello[c] = Absent =>
                   ws[c] = "unauthorized"
            /\ auth_token # NoToken /\ hello[c] = "Bearer wrong" =>
                   ws[c] = "forbidden"
            /\ auth_token = NoToken => ~Rejected(c)
            /\ Rejected(c) => TakesNoPart(c)

\* C13 witness: a token is configured; c1 came with a wrong token and was
\* rejected as forbidden, c2 came with the right one, has run a command and
\* received an event.
C13_Witness ==
    /\ auth_token = "secret"
    /\ hello["c1"] = "Bearer wrong"
    /\ ws["c1"] = "forbidden"
    /\ hello["c2"] = "Bearer secret"
    /\ resp["c2"].status = "ok"
    /\ inbox["c2"] # <<>>


(***************************************************************************)
(* Claims about publishing events (SpecEvents).                            *)
(***************************************************************************)
\* the event of d's last publish
LastPublished(d) ==
    [device_name |-> d, state |-> lastEvent[d].state, born |-> lastEvent[d].born]

\* C14: a publish attempts delivery to every client registered at publish
\* time; a client whose send fails does not stop the delivery to the others
\* and the failure does not reach the publisher: when the publish has
\* returned, every client of publish time whose send did not fail has
\* received the event, and a publish with a failed send and sends still
\* outstanding is still delivering.
C14_FailedDeliveryIsIsolated ==
    \A d \in Devices :
        /\ delivery[d].failed \subseteq delivery[d].targets
        /\ delivery[d].returned =>
               \A c \in delivery[d].targets \ delivery[d].failed :
                   LastPublished(d) \in EventsOf(c, d)
        /\ (evHolder[d].phase = "deliver" /\ delivery[d].failed # {}) =>
               /\ evHolder[d].pending # {}
               /\ evHolder[d].pending \cap delivery[d].failed = {}

\* C14 witness: d1's publish went to c1 and c2; the send to c1 failed (c1
\* had closed), c2 received the event and the publish returned.
C14_Witness ==
    /\ delivery["d1"].targets = {"c1", "c2"}
    /\ delivery["d1"].failed = {"c1"}
    /\ delivery["d1"].returned
    /\ LastPublished("d1") \in EventsOf("c2", "d1")
    /\ evTask["d1"] = "done"

Pending(c) == pc[c] \in {"wait", "granted", "exec"}

\* the gate is held exactly by the connection executing or handed the permit
GateAccounted ==
    /\ Cardinality({c \in Conns : pc[c] \in {"granted", "exec"}}) <= SemCapacity
    /\ sem_value = SemCapacity
                   - Cardinality({c \in Conns : pc[c] \in {"granted", "exec"}})

\* the command of a connection that has closed does not go on to execute
NoStartAfterClose ==
    \A c \in Conns :
        (ws[c] = "closed" /\ Pending(c) /\ pc[c] # "exec") => pc'[c] # "exec"

\* C16: when a connection closes while its command waits for the gate or
\* executes, the request is cancelled (a command that was waiting never goes
\* on to execute), and the gate is held only by a command that is executing
\* or was just handed the permit.
C16_CloseCancelsPendingRequest ==
    /\ []GateAccounted
    /\ [][NoStartAfterClose]_vars


(***************************************************************************)
(* Claims about binding sessions (Spec).                                   *)
(***************************************************************************)
\* a bind_discovery that succeeds for d finds d unbound
BindsOnlyUnbound ==
    \A d \in Devices :
        binds'[d] # binds[d] => /\ ~bound[d]
                                /\ bound'[d]
                                /\ binds'[d] = binds[d] + 1

\* C20: over initial discovery followed by any number of rescan passes, every
\* session is bound at most once (it is bound exactly when one bind has
\* succeeded for it), and every successful bind, the rescan's included, finds
\* the session unbound at that moment.
C20_SessionBoundAtMostOnce ==
    /\ [](\A d \in Devices : binds[d] <= 1 /\ (bound[d] <=> binds[d] = 1))
    /\ [][BindsOnlyUnbound]_vars

\* C20 witness: d1 was bound by initial discovery and has been started; a
\* later rescan pass has just bound d2 and is starting it.
C20_Witness ==
    /\ mgr = "rescan_loop"
    /\ starting = "d2"
    /\ binds = [d \in Devices |-> 1]
    /\ connected["d1"]
    /\ wsUp


(***************************************************************************)
(* Claims about the discovery scan (SpecScan, SpecScanFair).               *)
(***************************************************************************)
\* the targets of the scan that are configured with an address
AddressTargets ==
    {d \in scan.targets : cfg[d].address # ""}
\* the advertisement bound to d carries d's configured address
BoundByAddress(d) ==
    Upper(scan.found[d].address) = Upper(cfg[d].address)
\* the advertisement bound to d carries d's match_name and an address that is
\* no target's configured address
BoundByName(d) ==
    /\ cfg[d].match_name # NoName
    /\ StripLower(scan.found[d].name) = StripLower(cfg[d].match_name)
    /\ \A t \in AddressTargets :
           Upper(scan.found[d].address) # Upper(cfg[t].address)

\* C17 as stated: a target configured with an address (with or without a
\* match_name) is in the scan's result if and only if an observed
\* advertisement carried that address, ignoring case, and the advertisement
\* it is bound to is never one with a different address matched by name.
C17_AddressTargetBoundIffAddressSeen ==
    \A d \in AddressTargets :
        /\ d \in FoundNames(scan) <=> seen.addr[d]
        /\ d \in FoundNames(scan) => BoundByAddress(d)

\* C17 amended: a target configured with an address is bound either to an
\* advertisement carrying that address or, when it also has a match_name, to
\* one carrying that name whose address is no target's address; without a
\* match_name it is in the result only if its address was observed; and when
\* no other target is configured with the same address it is in the result
\* whenever its address was observed.
C17_AddressFirstThenName ==
    \A d \in AddressTargets :
        /\ d \in FoundNames(scan) => BoundByAddress(d) \/ BoundByName(d)
        /\ cfg[d].match_name = NoName =>
               (d \in FoundNames(scan) => seen.addr[d] /\ BoundByAddress(d))
        /\ AddressOwners(scan.targets, Upper(cfg[d].address)) = {d} =>
               (seen.addr[d] => d \in FoundNames(scan))

\* C17 witness: the scan has returned; d1, configured with address AA and a
\* match_name, was bound to the advertisement of address "aa", and d2,
\* configured with address BB and match_name snooz2, was bound through its
\* name to an advertisement of address CC.
C17_Witness ==
    /\ scan.phase = "ended"
    /\ scan.targets = Devices
    /\ cfg["d1"] = DeviceConfig("AA", "Snooz1")
    /\ cfg["d2"] = DeviceConfig("BB", "snooz2")
    /\ scan.found["d1"] = Advertisement("aa", "")
    /\ scan.found["d2"] = Advertisement("CC", "snooz2")
    /\ ~seen.addr["d2"]


\* the wait of the scan has ended
WaitEnded == scan.phase \in {"stopping", "ended"}

\* a wait ended by done has every target matched, no tick passes once every
\* target is matched, and a wait ended by the timeout used the whole timeout
EndsWhenAllMatchedOrAtTimeout ==
    /\ scan.by = "done" => scan.targets \subseteq FoundNames(scan)
    /\ seen.lag = 0
    /\ scan.by = "timeout" => scan.left = 0

\* the result holds targets only, and exactly those cb matched
ResultIsWhatWasMatched ==
    scan.phase = "ended" =>
        /\ FoundNames(scan) \subseteq scan.targets
        /\ FoundNames(scan) = seen.matched

\* C18 as stated: the scan ends when every target is matched, without
\* waiting for the timeout, or at the timeout; the result is exactly the
\* set of targets matched, and after a timeout it is exactly the set of
\* targets that were matched when the timeout elapsed.
C18_ResultIsWhatWasMatchedAtTimeout ==
    /\ EndsWhenAllMatchedOrAtTimeout
    /\ ResultIsWhatWasMatched
    /\ (scan.phase = "ended" /\ scan.by = "timeout") =>
           FoundNames(scan) = seen.at_wake

\* C18 amended: the same, except that the result holds at least the targets
\* matched when the wait ended: a target matched after that and before the
\* scanner has stopped is in the result too.
C18_ResultIsWhatWasMatchedBeforeStop ==
    /\ EndsWhenAllMatchedOrAtTimeout
    /\ ResultIsWhatWasMatched
    /\ WaitEnded => seen.at_wake \subseteq FoundNames(scan)

\* C18 witness: a scan for d1 and d2 has returned both; its wait was ended
\* by done before any tick of the timeout had passed.
C18_Witness ==
    /\ scan.phase = "ended"
    /\ scan.by = "done"
    /\ scan.targets = Devices
    /\ FoundNames(scan) = Devices
    /\ scan.left = ScanTicks


\* the scanner runs only inside a scan that has not returned, a scan that has
\* returned or was cancelled has stopped it, and a wait lasts at most the
\* timeout
ScannerFollowsScan ==
    /\ scan.phase = "idle" => scan.scanner = "none"
    /\ scan.phase \in {"waiting", "stopping"} => scan.scanner = "running"
    /\ scan.phase = "ended" => scan.scanner = "stopped"
    /\ scan.left \in 0..ScanTicks

\* C19: every scan terminates, whatever advertisements arrive or fail to
\* arrive: a scan that has started its scanner always reaches its end, its
\* wait lasts no longer than the timeout, and however the wait ended (every
\* target matched, timeout, cancellation) the scanner that was started has
\* been stopped when the scan has ended.
C19_ScanEndsAndStopsScanner ==
    /\ []ScannerFollowsScan
    /\ (scan.scanner = "running") ~> (scan.phase = "ended")

\* C19 witness: a scan whose wait was ended by cancellation, with a target
\* still unmatched and the timeout not elapsed, has ended with the scanner
\* stopped.
C19_Witness ==
    /\ scan.phase = "ended"
    /\ scan.by = "cancel"
    /\ scan.scanner = "stopped"
    /\ scan.left > 0
    /\ FoundNames(scan) # scan.targets


(***************************************************************************)
(* Claims about the rescan supervisor (SpecSupervisor).                    *)
(***************************************************************************)
Unbound == {d \in Devices : ~bound[d]}
\* this step is a rescan tick that scans
TickScans == mgr = "sleep" /\ mgr' = "rescan_loop"

\* a session whose start() raised is bound, was bound once, is not being
\* started and is not among the matches waiting to be bound
FailedStartKeepsBinding ==
    \A d \in Devices :
        started[d] = "failed" =>
            bound[d] /\ binds[d] = 1 /\ starting # d /\ d \notin found

\* start() is not called again for it and no later tick scans for it
FailedStartIsFinal ==
    \A d \in Devices :
        started[d] = "failed" =>
            /\ started'[d] = "failed"
            /\ TickScans => d \notin rescan'.targets

\* C21: when start() fails after a successful bind, at startup or after a
\* rescan, the binding is kept: the session stays bound, no later rescan
\* tick has it among its targets, and start() is never called for it again.
C21_FailedStartStaysBound ==
    /\ []FailedStartKeepsBinding
    /\ [][FailedStartIsFinal]_vars

\* C21 witness: d1's start() failed; a later rescan tick scanned for d2
\* alone, bound it and is starting it.
C21_Witness ==
    /\ started["d1"] = "failed"
    /\ ~connected["d1"]
    /\ mgr = "rescan_loop"
    /\ rescan.targets = {"d2"}
    /\ starting = "d2"

\* a tick that scans has exactly the unbound identities as targets, and with
\* every identity bound a step of the sleeping loop starts no scan
TickTargetsAreUnbound ==
    /\ TickScans => /\ Unbound # {}
                    /\ rescan'.scanned
                    /\ rescan'.targets = Unbound
                    /\ found' \subseteq Unbound
    /\ (mgr = "sleep" /\ Unbound = {}) =>
           /\ mgr' = "sleep"
           /\ ~rescan'.scanned
           /\ found' = {}

\* C22: on each rescan tick the scan targets are exactly the identities that
\* are unbound at that tick, and when every identity is bound the tick
\* starts no scan.
C22_TickScansForUnbound ==
    /\ [][TickTargetsAreUnbound]_vars
    /\ [](rescan.scanned =>
              /\ rescan.targets # {}
              /\ found \subseteq rescan.targets
              /\ Unbound \subseteq rescan.targets)

\* C22 witness: with d1 bound and started and d2 unbound, a tick has scanned
\* for d2 alone and has found it.
C22_Witness ==
    /\ mgr = "rescan_loop"
    /\ rescan.scanned
    /\ rescan.targets = {"d2"}
    /\ found = {"d2"}
    /\ started["d1"] = "done"
    /\ Unbound = {"d2"}

\* C23: the rescan loop does not end while the service runs: after a tick
\* that raised (the scan, a bind) or whose start() failed, the loop is still
\* running, a later tick begins, and a tick scans for every identity that
\* is still unbound.
C23_RescanLoopSurvivesErrors ==
    /\ [](mgr # "ended")
    /\ [](rescan.ticked => Unbound \subseteq rescan.targets)
    /\ (rescan.error # "none") ~> rescan.resumed

\* C23 witness: a tick ended with an error in bind and d1's start() had
\* failed; a later tick is scanning for d2, which is still unbound.
C23_Witness ==
    /\ rescan.error = "bind"
    /\ rescan.resumed
    /\ started["d1"] = "failed"
    /\ mgr = "rescan_loop"
    /\ rescan.targets = {"d2"}
    /\ ~bound["d2"]


(***************************************************************************)
(* Claims about the registry (SpecRegistry).                               *)
(***************************************************************************)
\* C24: registering a name that is already present fails and leaves the
\* registry as it was, with the one callback of the first registration; a
\* successful registration appends the name, so the names are listed without
\* repetition in registration order; get of an absent name fails with the
\* unknown-device error (KeyError) and get of a present name does not.
C24_RegistryRejectsDuplicates ==
    LET last == registry.last
    IN /\ \A i, j \in 1..Len(registry.names) :
              registry.names[i] = registry.names[j] => i = j
       /\ \A n \in RegNames :
              registry.callbacks[n] = IF n \in Registered(registry) THEN 1 ELSE 0
       /\ last.op = "add" =>
              IF \E i \in 1..Len(last.before) : last.before[i] = last.name
              THEN last.raised = "ValueError" /\ registry.names = last.before
              ELSE last.raised = "none"
                   /\ registry.names = Append(last.before, last.name)
       /\ last.op = "get" =>
              /\ registry.names = last.before
              /\ last.raised = "KeyError" <=> last.name \notin Registered(registry)
       /\ last.op = "names" => registry.names = last.before

\* C24 witness: d2, then d1 were registered and a second registration of d2
\* has just failed: the names are still d2, d1 with one callback each.
C24_Witness ==
    /\ registry.names = <<"d2", "d1">>
    /\ registry.last.op = "add"
    /\ registry.last.name = "d2"
    /\ registry.last.raised = "ValueError"
    /\ registry.callbacks["d2"] = 1


(***************************************************************************)
(* Further claims about the protocol handler (Spec).                       *)
(***************************************************************************)
\* the last frame of c is a command object without device_name
WithoutDeviceName(c) ==
    /\ req[c].kind = "object"
    /\ req[c].type = "command"
    /\ req[c].device_name = Absent

\* C25: a device command (get_state or an action command) that arrives
\* without device_name is answered with the error "device_name is required"
\* and nothing else happens: it is not answered as an unknown or unavailable
\* device (no lookup was made), it does not wait for or hold the gate and no
\* device call runs for it; heartbeat and list_devices without device_name
\* are answered ok.
C25_MissingDeviceNameIsValidationError ==
    \A c \in Conns :
        WithoutDeviceName(c) =>
            /\ req[c].command \in DeviceCommands =>
                   /\ nresp[c] = 1
                   /\ resp[c] = Response(RequestIdOf(req[c]), "error",
                                         "device_name is required")
                   /\ pc[c] = "idle"
                   /\ ~InSeq(arrivals, c)
                   /\ ~reqReady[c]
            /\ req[c].command \in {"heartbeat", "list_devices"} =>
                   /\ nresp[c] = 1
                   /\ resp[c].status = "ok"
                   /\ resp[c].rid = RequestIdOf(req[c])
                   /\ pc[c] = "idle"

\* C25 witness: with d1 bound, set_volume 100 without device_name was
\* answered "device_name is required" and the gate is free.
C25_Witness ==
    /\ WithoutDeviceName("c1")
    /\ req["c1"].command = "set_volume"
    /\ req["c1"].argKind = "int"
    /\ req["c1"].argVal = 100
    /\ resp["c1"].error = "device_name is required"
    /\ bound["d1"]
    /\ sem_value = SemCapacity

\* connection c has the answer to an action command
ActionAnswered(c) ==
    /\ req[c].kind = "object"
    /\ req[c].command \in ActionCommands
    /\ nresp[c] = 1

\* C26: an action command is answered ok only if its device operation ended
\* with the SUCCESSFUL status; an operation that ended with another status is
\* answered with the error command_failed, which only such an operation
\* produces, while device_unavailable is the answer of a command that ran no
\* operation because the device was not ready.
C26_OkOnlyAfterSuccessfulOperation ==
    \A c \in Conns :
        ActionAnswered(c) =>
            /\ resp[c].status = "ok" => executed[c] = "SUCCESSFUL"
            /\ executed[c] = "failed_status" =>
                   /\ resp[c].status = "error"
                   /\ resp[c].error = "command_failed"
            /\ resp[c].error = "command_failed" => executed[c] = "failed_status"
            /\ resp[c].error = "device_unavailable" =>
                   /\ executed[c] = "none"
                   /\ ~reqReady[c]

\* C26 witness: c1's set_volume 100 reached the bound d1, the operation ended
\* with a status other than SUCCESSFUL, and c1 holds the command_failed error
\* with its request_id while the gate is free again.
C26_Witness ==
    /\ ActionAnswered("c1")
    /\ req["c1"].command = "set_volume"
    /\ req["c1"].device_name = "d1"
    /\ reqReady["c1"]
    /\ executed["c1"] = "failed_status"
    /\ resp["c1"] = Response(RequestIdOf(req["c1"]), "error", "command_failed")
    /\ sem_value = SemCapacity

(***************************************************************************)
(* Claims about the shutdown (SpecStop).                                   *)
(***************************************************************************)
\* ws.stop() and manager.stop() have both returned
StopsComplete == svc.stop = "done"

\* the rescan task will scan again
WillScan == mgr = "sleep" /\ running

\* C27: once the gateway stop and the manager stop have completed, the
\* rescan loop starts no further scan, no session has an emission pending,
\* every bound session has had its disconnect requested, and no client is
\* left in the set of connected clients.
C27_NothingRunsAfterStop ==
    StopsComplete =>
        /\ ~WillScan
        /\ \A d \in Devices : ~EmissionPending(d)
        /\ \A d \in Devices : bound[d] => svc.disconnect[d] # "no"
        /\ clients = {}

(***************************************************************************)
(* Claims about binding (SpecBind).                                        *)
(***************************************************************************)
\* C28: a bind on an advertisement that cannot be classified returns false
\* and leaves the session unbound, with its configured address and without
\* subscription, so that it is a target of the next rescan tick; a bind that
\* succeeds leaves the session bound, subscribed, and with the discovered
\* address upper-cased as its address.
C28_BindFailsWithoutEffect ==
    LET b == seen.bind
    IN b.name # NoDev =>
           /\ b.returned = b.classified
           /\ ~b.classified =>
                  /\ ~bound[b.name]
                  /\ ~subscribed[b.name]
                  /\ address[b.name] = cfg[b.name].address
                  /\ b.name \in missing_names
                  /\ starting # b.name
           /\ b.classified =>
                  /\ bound[b.name]
                  /\ subscribed[b.name]
                  /\ address[b.name] = Upper(b.adv.address)

\* C28 witness: d2, configured with address BB, was matched by name on an
\* advertisement from address CC and bound: its address is CC; the bind of
\* d1 on an unclassifiable advertisement from aa returned false and d1 is
\* unbound with its configured address.
C28_Witness ==
    /\ bound["d2"]
    /\ subscribed["d2"]
    /\ cfg["d2"].address = "BB"
    /\ address["d2"] = "CC"
    /\ seen.bind.name = "d1"
    /\ seen.bind.adv.address = "aa"
    /\ ~seen.bind.classified
    /\ ~seen.bind.returned
    /\ ~bound["d1"]
    /\ address["d1"] = "AA"

(***************************************************************************)
(* A further claim about the scan (SpecScan).                              *)
(***************************************************************************)
\* advertisement a matches target d in scan sc by its address, or, its
\* address being no target's, by its name
MatchesAddressFirst(sc, d, a) ==
    IF a.address # "" /\ Upper(a.address) \in AddrKeys
       /\ sc.addr_map[Upper(a.address)] # NoDev
    THEN sc.addr_map[Upper(a.address)] = d
    ELSE /\ StripLower(a.name) \in NameKeys
         /\ sc.name_map[StripLower(a.name)] = d

\* C29: the result of a scan has its keys among the requested targets; a
\* target gets its match from an advertisement that matches it by address,
\* or by name when that advertisement's address is no target's address; and
\* while the scan lasts a match, once recorded, is never replaced by a later
\* advertisement.
C29_FirstMatchWins ==
    /\ [](FoundNames(scan) \subseteq scan.targets)
    /\ [][\A d \in Devices :
             /\ scan.found[d] # NoAdv /\ scan'.phase # "idle" =>
                    scan'.found[d] = scan.found[d]
             /\ scan.found[d] = NoAdv /\ scan'.found[d] # NoAdv =>
                    MatchesAddressFirst(scan, d, scan'.found[d])]_vars

\* C29 witness: d1 has address AA and match_name Snooz1 and was matched by
\* name on an advertisement from CC; an advertisement that matched d1 again
\* came later and was dropped, and d2 has no match.
C29_Witness ==
    /\ cfg["d1"] = DeviceConfig("AA", "Snooz1")
    /\ scan.targets = Devices
    /\ scan.found["d1"] = Advertisement("CC", " SNOOZ1 ")
    /\ scan.found["d2"] = NoAdv
    /\ "d1" \in seen.dropped
    /\ seen.addr["d1"]

(***************************************************************************)
(* Claims about the calls on a session (SpecSession).                      *)
(***************************************************************************)
\* the step leaves session state, emission tasks and notification counts
\* as they were
SessionUntouched == UNCHANGED <<deviceVars, notifs, started>>

\* C30: start() on a session that is not bound raises the not-bound error
\* without awaiting the device and changes nothing; refresh_state() on a
\* session that is not bound or not connected returns without awaiting the
\* device and changes nothing; on a connected session it reads the state
\* and starts an emission exactly when the state read differs from the one
\* held.
C30_SessionPreconditions ==
    [][called'.n # called.n =>
          LET k == called'
              d == called'.name
          IN /\ k.op = "start" /\ ~bound[d] =>
                    k.raised = "not_bound" /\ ~k.radio /\ SessionUntouched
             /\ k.op = "refresh_state" /\ (~bound[d] \/ ~connected[d]) =>
                    k.raised = "none" /\ ~k.radio /\ SessionUntouched
             /\ k.op = "refresh_state" /\ bound[d] /\ connected[d]
                   /\ k.raised = "none" =>
                    /\ k.radio
                    /\ k.read # devState[d] =>
                           /\ notifs'[d] = notifs[d] + 1
                           /\ evTask'[d] = "waiting"
                           /\ devState'[d] = k.read
                    /\ k.read = devState[d] => SessionUntouched]_vars

\* C30 witness: with d2 bound and connected, the third call was start() on
\* the unbound d1 and raised the not-bound error without awaiting the device.
C30_Witness ==
    /\ called.n = MaxCalls
    /\ called.op = "start"
    /\ called.name = "d1"
    /\ called.raised = "not_bound"
    /\ ~called.radio
    /\ ~bound["d1"]
    /\ bound["d2"]
    /\ connected["d2"]

(***************************************************************************)
(* Claims about the commands that only read (SpecReads).                   *)
(***************************************************************************)
\* the request connection c holds is get_state, heartbeat or list_devices
ReadRequest(r) ==
    r.kind = "object" /\ r.type = "command" /\ r.command \in ReadCommands

\* C31: get_state, heartbeat and list_devices are answered in the step that
\* takes them, whoever holds or waits for the semaphore: their connection
\* never asks for the semaphore, never runs a device operation, and the step
\* leaves the semaphore, its queue and the device sessions as they were.
C31_ReadsBypassTheGate ==
    /\ [](\A c \in Conns :
             ReadRequest(req[c]) =>
                 /\ pc[c] = "idle"
                 /\ ~InSeq(arrivals, c)
                 /\ ~InSeq(sem_waiters, c)
                 /\ executed[c] = "none"
                 /\ nresp[c] = 1
                 /\ resp[c].rid = RequestIdOf(req[c]))
    /\ [][\A c \in Conns :
             ReadRequest(req'[c]) /\ req'[c] # req[c] =>
                 UNCHANGED <<sem_value, sem_waiters, arrivals, deviceVars>>]_vars

\* C31 witness: c1's command holds the semaphore and c3's waits for it; c2's
\* get_state for d1 came while the semaphore was locked and is answered ok
\* with the snapshot.
C31_Witness ==
    /\ pc["c1"] = "exec"
    /\ pc["c3"] = "wait"
    /\ req["c2"].command = "get_state"
    /\ req["c2"].device_name = "d1"
    /\ held["c2"]
    /\ nresp["c2"] = 1
    /\ resp["c2"].status = "ok"
    /\ resp["c2"].data.present

(***************************************************************************)
(* Claims about the order of one connection's messages (SpecOrder).        *)
(***************************************************************************)
\* the request ids of the first n frames client c sent
AskedIds(c, n) == [i \in 1..n |-> RequestIdOf(wire[c].msgs[i])]

\* C32: a connection's frames are handled one at a time in the order they
\* arrived: its responses carry the ids of its frames in arrival order, at most
\* one taken frame is unanswered and it is the one a command is in flight
\* for, the connection is queued for the semaphore at most once, no frame is
\* taken while the connection's command waits or executes, and a connection
\* with no command in flight can take its next frame whatever the others do.
C32_OneAtATimeInOrder ==
    /\ [](\A c \in Conns :
             LET w == wire[c]
             IN /\ Len(w.answers) <= w.taken
                /\ w.answers = AskedIds(c, Len(w.answers))
                /\ w.taken =
                       Len(w.answers) + (IF pc[c] = "idle" THEN 0 ELSE 1)
                /\ w.taken > 0 => req[c] = w.msgs[w.taken]
                /\ Len(SelectSeq(arrivals, LAMBDA x : x = c)) <= 1
                /\ (ws[c] = "open" /\ handler[c] = "running" /\ pc[c] = "idle"
                    /\ Waiting(c)) => ENABLED Take(c))
    /\ [][\A c \in Conns :
             /\ pc[c] # "idle" => wire'[c].taken = wire[c].taken
             /\ wire'[c].taken \in {wire[c].taken, wire[c].taken + 1}]_vars

\* C32 witness: c1's command executes; c2's command waits for the semaphore
\* with a heartbeat of c2 behind it, still untaken; c3, whose heartbeat was
\* answered first, had its command taken after c2's and waits behind it.
C32_Witness ==
    /\ pc["c1"] = "exec"
    /\ sem_waiters = <<"c2", "c3">>
    /\ pc["c2"] = "wait"
    /\ wire["c2"].taken = 1
    /\ Len(wire["c2"].msgs) = 2
    /\ wire["c2"].msgs[2].command = "heartbeat"
    /\ wire["c2"].answers = <<>>
    /\ wire["c3"].answers = <<Null>>
    /\ wire["c3"].taken = 2

(***************************************************************************)
(* Claims about the client set (SpecClientsFair).                          *)
(***************************************************************************)
\* a send to client c failed in this step: a response, or an event of d1
SendFailed(c) ==
    /\ ws[c] # "open"
    /\ \/ pc[c] = "exec" /\ pc'[c] = "idle"
       \/ c \in evHolder["d1"].pending /\ c \in delivery'["d1"].failed

\* C33: the client set holds only connections whose handler is running; a
\* connection enters it in the step that starts its handler, which happens
\* once; it leaves it in the step that ends its handler and in every step in
\* which a send to it fails, and in no other step; and every connection that
\* is closed is eventually out of the set.
C33_ClientSetFollowsHandlers ==
    /\ [](clients \subseteq {c \in Conns : handler[c] = "running"})
    /\ [][\A c \in Conns :
             /\ c \in clients' \ clients =>
                    handler[c] = "none" /\ handler'[c] = "running"
             /\ handler[c] # "none" => handler'[c] # "none"
             /\ (handler[c] = "running" /\ handler'[c] # "running") =>
                    c \notin clients'
             /\ SendFailed(c) => c \notin clients'
             /\ c \in clients \ clients' =>
                    handler'[c] # "running" \/ SendFailed(c)]_vars
    /\ \A c \in Conns : (ws[c] = "closed") ~> (c \notin clients)

\* C33 witness: c1 closed while its command was in flight and its handler
\* is still running; a send of d1's event to it failed and took it out of the
\* set, where c2 still is.
C33_Witness ==
    /\ ws["c1"] = "closed"
    /\ handler["c1"] = "running"
    /\ pc["c1"] = "exec"
    /\ "c1" \in delivery["d1"].failed
    /\ clients = {"c2"}

(***************************************************************************)
(* Claims about start() and stop() in any order (SpecLifecycle).           *)
(***************************************************************************)
\* the rescan tasks that exist, have not ended and have no cancellation
\* on its way
ActiveLoops ==
    {k \in Starts :
        api.loop[k] \in {"created", "sleep", "scan"} /\ ~api.cancelling[k]}

\* a start() call made while _running is set changes nothing
StartWhileRunningIsIgnored ==
    [][\A k \in Starts :
         (api.call[k] = "idle" /\ api'.call[k] # "idle" /\ api.running) =>
             api' = [api EXCEPT !.call[k] = "ignored"]]_vars

\* C34: whatever the order of start() and stop() calls, at most one rescan
\* task is active, and a start() call made while the manager is running
\* changes nothing.
C34_AtMostOneRescanLoop ==
    /\ [](Cardinality(ActiveLoops) <= 1)
    /\ StartWhileRunningIsIgnored

(***************************************************************************)
(* Claims about the last event of a burst (SpecDebounceFair).              *)
(***************************************************************************)
\* the notifications a device can have had: the one of the state read by
\* its start() and MaxNotifs more
NotifCounts == 0..(MaxNotifs + 1)

\* the event d's latest notification calls for
FinalEvent(d) == [device_name |-> d, state |-> devState[d], born |-> notifs[d]]

\* d's latest notification has been answered: the listeners were called with
\* an event that carries d's state, the publish returned, and every client it
\* was for has the event unless the send to it failed
FinalDelivered(d) ==
    /\ evTask[d] = "done"
    /\ lastEvent[d].born = notifs[d]
    /\ lastEvent[d].state = devState[d]
    /\ PublishIndex(FinalEvent(d)) > 0
    /\ delivery[d].returned
    /\ \A c \in delivery[d].targets \ delivery[d].failed :
          InSeq(inbox[c], FinalEvent(d))

\* C35: a device has a bounded number of notifications, so every behaviour
\* has a last one for it: from some point on, every device that was notified
\* has had an event with its latest state delivered to every listener;
\* the lock is taken only when nobody holds it, and only the task of the
\* latest notification, holding the lock and not cancelled, publishes.
C35_FinalStateIsDelivered ==
    /\ [](\A d \in Devices : notifs[d] \in NotifCounts)
    /\ <>[](\A d \in Devices : notifs[d] > 0 => FinalDelivered(d))
    /\ [](\A d \in Devices :
             (event_lock_locked(d) /\ ~evHolder[d].cancelled) =>
                 evTask[d] = "holding" /\ evHolder[d].born = notifs[d])
    /\ [][\A d \in Devices :
             /\ (evTask[d] = "waiting" /\ evTask'[d] = "holding") =>
                    evHolder[d] = NoHolder
             /\ lastEvent'[d] # lastEvent[d] =>
                    /\ evHolder[d].phase = "sleep"
                    /\ ~evHolder[d].cancelled
                    /\ lastEvent'[d].born = notifs[d]]_vars

\* C35 witness: d1 had two notifications; the emission of the first was
\* cancelled while delivering, after c1 had its event and before c2 had; the
\* emission of the second delivered d1's latest state to both.
C35_Witness ==
    /\ notifs["d1"] = 2
    /\ FinalDelivered("d1")
    /\ delivery["d1"].targets = {"c1", "c2"}
    /\ Len(inbox["c1"]) = 2
    /\ inbox["c1"][1].born = 1
    /\ inbox["c1"][2] = FinalEvent("d1")
    /\ inbox["c2"] = <<FinalEvent("d1")>>

=============================================================================
